---- MODULE Spec2Model ----
(***************************************************************************)
(* Model of the plan-decide-act loop of rust-cli-agent: the session loop   *)
(* of main.rs, Orchestrator (orchestrator.rs), AppState (state.rs), the    *)
(* action dispatcher run_tool and the Decision wire format (tools.rs), the *)
(* planner and coder agents and the CostTracker.                           *)
(***************************************************************************)
EXTENDS Integers, Sequences, FiniteSets, TLC

(***************************************************************************)
(* Bounds of the model.                                                    *)
(***************************************************************************)
MaxPlan == 2
\* The number of threads that call add_cost on one tracker at the same time.
MaxThreads == 3
\* The number of add_history calls on a state used directly.
MaxHist == 2
\* The number of lines of a backend response given to parse_plan directly.
MaxLines == 3

(***************************************************************************)
(* Text.  A Rust String is modelled as a run-length encoded sequence of    *)
(* pieces [c, w, n]: n units of content c, each unit w bytes wide.  A      *)
(* single character is a piece with n = 1, "a".repeat(600) is one piece    *)
(* with n = 600, and an ASCII literal of the program is one piece named by *)
(* the literal, w = 1 and n its length (a shorter n is its prefix).        *)
(***************************************************************************)
Ch(c) == <<[c |-> c, w |-> 1, n |-> 1]>>
Wide(c, w) == <<[c |-> c, w |-> w, n |-> 1]>>
Rep(c, n) == <<[c |-> c, w |-> 1, n |-> n]>>
Lit(s, n) == <<[c |-> s, w |-> 1, n |-> n]>>
Empty == <<>>

RECURSIVE ByteLen(_)
ByteLen(t) == IF t = <<>> THEN 0 ELSE Head(t).w * Head(t).n + ByteLen(Tail(t))

\* str::is_char_boundary(k): offset k starts a unit, or is the end.
RECURSIVE IsCharBoundary(_, _)
IsCharBoundary(t, k) ==
    IF k = 0 THEN TRUE
    ELSE IF t = <<>> THEN FALSE
    ELSE LET run == Head(t).w * Head(t).n IN
         IF k >= run THEN IsCharBoundary(Tail(t), k - run)
         ELSE k % Head(t).w = 0

\* &t[..k] for a k that is a char boundary with k <= len.
RECURSIVE Take(_, _)
Take(t, k) ==
    IF k = 0 \/ t = <<>> THEN <<>>
    ELSE LET run == Head(t).w * Head(t).n IN
         IF k >= run THEN <<Head(t)>> \o Take(Tail(t), k - run)
         ELSE <<[Head(t) EXCEPT !.n = k \div Head(t).w]>>

\* Piece-level substring test: str::contains(pat) for a text whose pieces
\* are cut at the pattern's literals.
Contains(t, pat) ==
    \E i \in 1..(Len(t) - Len(pat) + 1) : SubSeq(t, i, i + Len(pat) - 1) = pat

\* String::from_utf8_lossy: an invalid byte becomes U+FFFD (3 bytes).
Lossy(t) ==
    [i \in 1..Len(t) |->
        IF t[i].c = "<invalid byte>" THEN [c |-> "U+FFFD", w |-> 3, n |-> t[i].n]
        ELSE t[i]]

(***************************************************************************)
(* AgentError (error.rs) and its Display text.                             *)
(***************************************************************************)
ErrorKinds ==
    {"ConfigError", "LLMError", "ApiKeyMissing", "ToolError", "IoError",
     "WalkDirError", "RequestError", "JsonError", "ResponseParseError"}

AgentError(kind, msg) == [kind |-> kind, msg |-> msg]

\* e.to_string(), from the #[error("...")] attributes.
ErrorToString(e) ==
    CASE e.kind = "ConfigError"        -> Lit("Configuration error: ", 21) \o e.msg
      [] e.kind = "LLMError"           -> Lit("LLM provider error: ", 20) \o e.msg
      [] e.kind = "ApiKeyMissing"      -> Lit("API key for ", 12) \o e.msg
                                          \o Lit(" is not set in the environment variables", 40)
      [] e.kind = "ToolError"          -> Lit("Tool execution failed: ", 23) \o e.msg
      [] e.kind = "IoError"            -> Lit("I/O error: ", 11) \o e.msg
      [] e.kind = "WalkDirError"       -> Lit("WalkDir error: ", 15) \o e.msg
      [] e.kind = "RequestError"       -> Lit("Network request failed: ", 24) \o e.msg
      [] e.kind = "JsonError"          -> Lit("JSON serialization/deserialization failed: ", 43) \o e.msg
      [] e.kind = "ResponseParseError" -> Lit("Failed to parse LLM response: ", 30) \o e.msg

(***************************************************************************)
(* Tool (tools.rs): the closed set of six action variants.                 *)
(***************************************************************************)
ToolNames ==
    {"ReadFile", "WriteFile", "RunCommand", "Search", "ListFiles", "CodeGeneration"}

ReadFile(path) == [tool_name |-> "ReadFile", path |-> path]
WriteFile(path, content) == [tool_name |-> "WriteFile", path |-> path, content |-> content]
RunCommand(command) == [tool_name |-> "RunCommand", command |-> command]
Search(query) == [tool_name |-> "Search", query |-> query]
ListFiles(path) == [tool_name |-> "ListFiles", path |-> path]
CodeGeneration(task) == [tool_name |-> "CodeGeneration", task |-> task]

\* The fields of each variant, in declaration order.
ToolFields(name) ==
    CASE name = "ReadFile"       -> <<"path">>
      [] name = "WriteFile"      -> <<"path", "content">>
      [] name = "RunCommand"     -> <<"command">>
      [] name = "Search"         -> <<"query">>
      [] name = "ListFiles"      -> <<"path">>
      [] name = "CodeGeneration" -> <<"task">>

(***************************************************************************)
(* run_tool (tools.rs).  w is the answer of the outside world to the I/O   *)
(* the call performs.  The result records the outcome and, in io, the      *)
(* external effects the call attempted, in order.                          *)
(***************************************************************************)
Success(out, io) == [ok |-> TRUE, out |-> out, io |-> io]
Failure(e, io) == [ok |-> FALSE, err |-> e, io |-> io]

\* "[Result {i}]\nTitle: {}\nURL: {}\nSnippet: {}\n\n" for the first 3 results.
\* Mutant: every result of the answer is formatted.
RECURSIVE FormatResults_all(_, _)
FormatResults_all(results, i) ==
    IF results = <<>> THEN <<>>
    ELSE Lit("[Result ", 8) \o Ch(ToString(i)) \o Lit("]\nTitle: ", 9)
         \o Head(results).title \o Lit("\nURL: ", 6) \o Head(results).url
         \o Lit("\nSnippet: ", 10) \o Head(results).description \o Rep("\n", 2)
         \o FormatResults_all(Tail(results), i + 1)

RECURSIVE FormatResults(_, _)
FormatResults(results, i) ==
    IF results = <<>> \/ i > 3 THEN <<>>
    ELSE Lit("[Result ", 8) \o Ch(ToString(i)) \o Lit("]\nTitle: ", 9)
         \o Head(results).title \o Lit("\nURL: ", 6) \o Head(results).url
         \o Lit("\nSnippet: ", 10) \o Head(results).description \o Rep("\n", 2)
         \o FormatResults(Tail(results), i + 1)

\* The WalkDir loop: entries in error are skipped, then the path filter.
RECURSIVE WalkFiles(_)
WalkFiles(entries) ==
    IF entries = <<>> THEN <<>>
    ELSE LET e == Head(entries) IN
         (IF e.ok /\ ~Contains(e.path, Lit("target", 6) \o Ch("/"))
                  /\ ~Contains(e.path, Lit(".git", 4) \o Ch("/"))
          THEN e.path \o Ch("\n") ELSE <<>>)
         \o WalkFiles(Tail(entries))

\* Mutant: a nonzero exit status is reported as a failure of the tool.
run_tool_RunCommand_status(tool, w) ==
    IF w.spawn # "ok" THEN Failure(AgentError("IoError", w.msg), <<"process">>)
    ELSE IF w.success THEN Success(Lossy(w.stdout), <<"process">>)
    ELSE Failure(AgentError("ToolError", Lit("STDERR:", 7) \o Ch("\n") \o Lossy(w.stderr)),
                 <<"process">>)

\* Mutant: the two streams are reported under their markers whatever the
\* exit status.
run_tool_RunCommand_combined(tool, w) ==
    IF w.spawn # "ok" THEN Failure(AgentError("IoError", w.msg), <<"process">>)
    ELSE Success(Lit("STDOUT:", 7) \o Ch("\n") \o Lossy(w.stdout)
                 \o Ch("\n") \o Lit("STDERR:", 7) \o Ch("\n") \o Lossy(w.stderr),
                 <<"process">>)

\* The RunCommand arm: sh -c command; the exit status only selects the
\* format of the output ("STDOUT:\n{}\nSTDERR:\n{}" on a nonzero status).
run_tool_RunCommand(tool, w) ==
    IF w.spawn # "ok" THEN Failure(AgentError("IoError", w.msg), <<"process">>)
    ELSE IF w.success THEN Success(Lossy(w.stdout), <<"process">>)
    ELSE Success(Lit("STDOUT:", 7) \o Ch("\n") \o Lossy(w.stdout)
                 \o Ch("\n") \o Lit("STDERR:", 7) \o Ch("\n") \o Lossy(w.stderr),
                 <<"process">>)

\* Mutant: an entry in error fails the tool ("?" on the entry).
run_tool_ListFiles_propagate(tool, w) ==
    IF \E i \in 1..Len(w.entries) : ~w.entries[i].ok
    THEN Failure(AgentError("WalkDirError", Lit("IO error", 8)), <<"walkdir">>)
    ELSE Success(WalkFiles(w.entries), <<"walkdir">>)

\* The ListFiles arm: filter_map(|e| e.ok()) drops the entries in error,
\* the arm has no "?" and always returns Ok.
run_tool_ListFiles(tool, w) == Success(WalkFiles(w.entries), <<"walkdir">>)

\* Mutant: the CodeGeneration arm writes a file before it fails.
run_tool_CodeGeneration_io(tool, w) ==
    Failure(AgentError("ToolError", Lit("CodeGeneration is not a runnable tool.", 38)),
            <<"fs_write">>)

run_tool_CodeGeneration(tool, w) ==
    Failure(AgentError("ToolError", Lit("CodeGeneration is not a runnable tool.", 38)), <<>>)

run_tool(tool, w) ==
    CASE tool.tool_name = "ReadFile" ->
            IF w.fs = "ok" THEN Success(w.content, <<"fs_read">>)
            ELSE Failure(AgentError("IoError", w.msg), <<"fs_read">>)
      [] tool.tool_name = "WriteFile" ->
            IF w.fs = "ok" THEN Success(Lit("File written successfully.", 26), <<"fs_write">>)
            ELSE Failure(AgentError("IoError", w.msg), <<"fs_write">>)
      [] tool.tool_name = "RunCommand" ->
            run_tool_RunCommand(tool, w)
      [] tool.tool_name = "Search" ->
            IF ~w.key THEN Failure(AgentError("ApiKeyMissing", Lit("Brave Search", 12)), <<"env">>)
            ELSE IF w.send # "ok" THEN Failure(AgentError("RequestError", w.msg), <<"env", "network">>)
            ELSE IF ~w.status_success THEN
                IF w.body = "ok"
                THEN Failure(AgentError("ToolError", Lit("Brave Search API Error: ", 24) \o w.text),
                             <<"env", "network">>)
                ELSE Failure(AgentError("RequestError", w.msg), <<"env", "network">>)
            ELSE IF w.body # "ok" THEN Failure(AgentError("RequestError", w.msg), <<"env", "network">>)
            ELSE Success(FormatResults(w.results, 1), <<"env", "network">>)
      [] tool.tool_name = "ListFiles" ->
            run_tool_ListFiles(tool, w)
      [] tool.tool_name = "CodeGeneration" ->
            run_tool_CodeGeneration(tool, w)

(***************************************************************************)
(* The Decision wire format (tools.rs).  A backend response is modelled as *)
(* [wf, value]: wf tells whether the text is well-formed JSON, value is    *)
(* the JSON value.  Objects are finite maps from keys to values, a key     *)
(* that is not in the domain is omitted in the text.                       *)
(***************************************************************************)
JNull == [k |-> "null"]
JNum == [k |-> "num"]
JStr(t) == [k |-> "str", s |-> t]
JObj(fields) == [k |-> "obj", fields |-> fields]
JSeq(items) == [k |-> "seq", items |-> items]

None == [some |-> FALSE]
Some(v) == [some |-> TRUE, v |-> v]

\* The variant names as they appear on the wire.
VariantText(name) ==
    CASE name = "ReadFile"       -> Lit("ReadFile", 8)
      [] name = "WriteFile"      -> Lit("WriteFile", 9)
      [] name = "RunCommand"     -> Lit("RunCommand", 10)
      [] name = "Search"         -> Lit("Search", 6)
      [] name = "ListFiles"      -> Lit("ListFiles", 9)
      [] name = "CodeGeneration" -> Lit("CodeGeneration", 14)

SeqToSet(q) == {q[i] : i \in 1..Len(q)}

ParseErr(why) == [ok |-> FALSE, why |-> why]
ParseOk(v) == [ok |-> TRUE, v |-> v]

\* The variant named by the tag: #[serde(tag = "tool_name")], names are
\* matched exactly.
ParseVariant(o) ==
    IF "tool_name" \notin DOMAIN o THEN ParseErr("missing field tool_name")
    ELSE IF o["tool_name"].k # "str" THEN ParseErr("invalid type")
    ELSE IF \A name \in ToolNames : o["tool_name"].s # VariantText(name)
         THEN ParseErr("unknown variant")
    ELSE ParseOk(CHOOSE name \in ToolNames : o["tool_name"].s = VariantText(name))

\* Mutant: a field missing from the parameters map defaults to the empty
\* string (#[serde(default)] on the variant's fields).
ParseParameters_default(name, o) ==
    LET fs == ToolFields(name) IN
    IF "parameters" \notin DOMAIN o THEN ParseErr("missing field parameters")
    ELSE LET p == o["parameters"] IN
         IF p.k = "obj" THEN
            IF \E f \in SeqToSet(fs) : f \in DOMAIN p.fields /\ p.fields[f].k # "str"
            THEN ParseErr("invalid type")
            ELSE ParseOk([f \in SeqToSet(fs) |->
                            IF f \in DOMAIN p.fields THEN p.fields[f].s ELSE <<>>])
         ELSE ParseErr("invalid type")

\* The fields of the variant from #[serde(content = "parameters")]: a map
\* holding every field of the variant as a string (other keys are ignored),
\* or a sequence holding exactly the fields in declaration order.
ParseParameters(name, o) ==
    LET fs == ToolFields(name) IN
    IF "parameters" \notin DOMAIN o THEN ParseErr("missing field parameters")
    ELSE LET p == o["parameters"] IN
         IF p.k = "obj" THEN
            IF \E f \in SeqToSet(fs) : f \notin DOMAIN p.fields
            THEN ParseErr("missing field")
            ELSE IF \E f \in SeqToSet(fs) : p.fields[f].k # "str"
            THEN ParseErr("invalid type")
            ELSE ParseOk([f \in SeqToSet(fs) |-> p.fields[f].s])
         ELSE IF p.k = "seq" THEN
            IF Len(p.items) # Len(fs) THEN ParseErr("invalid length")
            ELSE IF \E i \in 1..Len(fs) : p.items[i].k # "str"
            THEN ParseErr("invalid type")
            ELSE ParseOk([f \in SeqToSet(fs) |->
                            p.items[CHOOSE i \in 1..Len(fs) : fs[i] = f].s])
         ELSE ParseErr("invalid type")

\* Tool::deserialize over the keys of the flattened object.
ParseTool(o) ==
    LET variant == ParseVariant(o) IN
    IF ~variant.ok THEN variant
    ELSE LET params == ParseParameters(variant.v, o) IN
         IF ~params.ok THEN params
         ELSE ParseOk(("tool_name" :> variant.v) @@ params.v)

\* Mutant: an omitted file_path defaults to the empty string
\* (#[serde(default)] on a String instead of an Option<String>).
ParseFilePath_empty(o) ==
    IF "file_path" \notin DOMAIN o THEN ParseOk(Some(<<>>))
    ELSE IF o["file_path"].k = "null" THEN ParseOk(None)
    ELSE IF o["file_path"].k = "str" THEN ParseOk(Some(o["file_path"].s))
    ELSE ParseErr("invalid type")

\* #[serde(default)] file_path: Option<String>.
ParseFilePath(o) ==
    IF "file_path" \notin DOMAIN o THEN ParseOk(None)
    ELSE IF o["file_path"].k = "null" THEN ParseOk(None)
    ELSE IF o["file_path"].k = "str" THEN ParseOk(Some(o["file_path"].s))
    ELSE ParseErr("invalid type")

\* serde_json::from_str::<Decision>(content).
ParseDecision(r) ==
    IF ~r.wf THEN ParseErr("syntax")
    ELSE IF r.value.k # "obj" THEN ParseErr("invalid type")
    ELSE LET o == r.value.fields IN
         IF "thought" \in DOMAIN o /\ o["thought"].k # "str" THEN ParseErr("invalid type")
         ELSE IF ~ParseFilePath(o).ok THEN ParseFilePath(o)
         ELSE IF "thought" \notin DOMAIN o THEN ParseErr("missing field thought")
         ELSE IF ~ParseTool(o).ok THEN ParseTool(o)
         ELSE ParseOk([thought |-> o["thought"].s,
                       tool |-> ParseTool(o).v,
                       file_path |-> ParseFilePath(o).v])

(***************************************************************************)
(* AppState (state.rs).                                                    *)
(***************************************************************************)
TruncationCap == 500
SummaryCap == 300

AppState_new(g) == [goal |-> g, plan |-> <<>>, history |-> <<>>, current_step |-> 0]

\* Mutant: the new entry is put in front of the history.
add_history_front(h, entry_type, content) == <<<<entry_type, content>>>> \o h

\* Mutant: an entry equal to the last one is not appended again.
add_history_dedup(h, entry_type, content) ==
    IF h # <<>> /\ h[Len(h)] = <<entry_type, content>> THEN h
    ELSE Append(h, <<entry_type, content>>)

add_history(h, entry_type, content) == Append(h, <<entry_type, content>>)

\* content.len() > cap, then &content[..cap]: slicing inside a multi-byte
\* character panics.
SlicePanics(content, cap) == ByteLen(content) > cap /\ ~IsCharBoundary(content, cap)

\* Mutant: content of exactly cap bytes is cut as well.
Summarize_at_cap(content, cap) ==
    IF ByteLen(content) >= cap THEN Take(content, cap) \o Lit("...", 3) ELSE content

Summarize(content, cap) ==
    IF ByteLen(content) > cap THEN Take(content, cap) \o Lit("...", 3) ELSE content

\* Mutant: the entries are rendered newest first.
RECURSIVE RenderEntries_newest_first(_)
RenderEntries_newest_first(h) ==
    IF h = <<>> THEN <<>>
    ELSE RenderEntries_newest_first(Tail(h))
         \o Ch("[") \o Head(h)[1] \o Lit("]\n", 2) \o Summarize(Head(h)[2], TruncationCap)
         \o Lit("\n---\n", 5)

\* for (entry_type, content) in &self.history: "[{}]\n{}\n---\n".
RECURSIVE RenderEntries(_)
RenderEntries(h) ==
    IF h = <<>> THEN <<>>
    ELSE Ch("[") \o Head(h)[1] \o Lit("]\n", 2) \o Summarize(Head(h)[2], TruncationCap)
         \o Lit("\n---\n", 5) \o RenderEntries(Tail(h))

\* Mutant: the placeholder line is written before the entries as well.
get_context_placeholder_always(g, h) ==
    [panic |-> \E i \in 1..Len(h) : SlicePanics(h[i][2], TruncationCap),
     text |-> Lit("The overall goal is: ", 21) \o g \o Ch("\n")
              \o Lit("\n--- History & Context ---\n", 27)
              \o Lit("No actions have been taken yet.\n", 32)
              \o RenderEntries(h)]

\* get_context: panic tells whether the call panics instead of returning.
get_context(g, h) ==
    [panic |-> \E i \in 1..Len(h) : SlicePanics(h[i][2], TruncationCap),
     text |-> Lit("The overall goal is: ", 21) \o g \o Ch("\n")
              \o Lit("\n--- History & Context ---\n", 27)
              \o (IF h = <<>> THEN Lit("No actions have been taken yet.\n", 32)
                  ELSE RenderEntries(h))]

(***************************************************************************)
(* PlannerAgent::parse_plan (planner.rs) over the units of the response.   *)
(***************************************************************************)
RECURSIVE Units(_)
Units(t) ==
    IF t = <<>> THEN <<>>
    ELSE IF Head(t).n = 0 THEN Units(Tail(t))
    ELSE <<[Head(t) EXCEPT !.n = 1]>>
         \o Units(<<[Head(t) EXCEPT !.n = Head(t).n - 1]>> \o Tail(t))

IsWhite(u) == u.c \in {" ", "\t", "\r", "\n"}

\* str::lines(): split at "\n", a final empty line is not produced.
RECURSIVE Lines(_, _)
Lines(u, cur) ==
    IF u = <<>> THEN (IF cur = <<>> THEN <<>> ELSE <<cur>>)
    ELSE IF Head(u).c = "\n" THEN <<cur>> \o Lines(Tail(u), <<>>)
    ELSE Lines(Tail(u), Append(cur, Head(u)))

RECURSIVE TrimStart(_)
TrimStart(u) == IF u # <<>> /\ IsWhite(Head(u)) THEN TrimStart(Tail(u)) ELSE u

RECURSIVE TrimEnd(_)
TrimEnd(u) ==
    IF u # <<>> /\ IsWhite(u[Len(u)]) THEN TrimEnd(SubSeq(u, 1, Len(u) - 1)) ELSE u

Trim(u) == TrimEnd(TrimStart(u))

\* line.find(". "): the first position of the two-character sequence, 0 if none.
FindDotSpace(u) ==
    LET hits == {i \in 1..(Len(u) - 1) : u[i].c = "." /\ u[i + 1].c = " "} IN
    IF hits = {} THEN 0 ELSE CHOOSE i \in hits : \A j \in hits : i <= j

ParseLine(line) ==
    IF FindDotSpace(line) # 0 THEN SubSeq(line, FindDotSpace(line) + 2, Len(line))
    ELSE line

\* Mutant: a blank line is kept as an empty step.
RECURSIVE ParseLines_keep_blank(_)
ParseLines_keep_blank(ls) ==
    IF ls = <<>> THEN <<>>
    ELSE <<ParseLine(Trim(Head(ls)))>> \o ParseLines_keep_blank(Tail(ls))

RECURSIVE ParseLines(_)
ParseLines(ls) ==
    IF ls = <<>> THEN <<>>
    ELSE IF Trim(Head(ls)) = <<>> THEN ParseLines(Tail(ls))
    ELSE <<ParseLine(Trim(Head(ls)))>> \o ParseLines(Tail(ls))

parse_plan(response) == ParseLines(Lines(Units(response), <<>>))

(***************************************************************************)
(* CoderAgent::parse_code (coder.rs): response.trim().                     *)
(***************************************************************************)
parse_code(response) == Trim(response)

(***************************************************************************)
(* The inputs of the model: what the user types, what the backends answer  *)
(* and what the outside world answers to a tool.                           *)
(***************************************************************************)
Short == Lit("ok", 2)
\* 600 ASCII bytes: longer than both caps, every offset a boundary.
LongAscii == Rep("a", 600)
\* A 2-byte character over byte offset 300.
Straddle300 == Rep("a", 299) \o Wide("U+00E9", 2) \o Rep("b", 10)
\* A 3-byte character over byte offset 500.
Straddle500 == Rep("a", 498) \o Wide("U+20AC", 3) \o Rep("b", 10)

IoMsg == Lit("No such file or directory (os error 2)", 38)
NetMsg == Lit("error sending request", 21)

StepNames == <<"A", "B", "C", "D">>

\* A numbered list of n steps, one per line.
RECURSIVE NumberedPlan(_)
NumberedPlan(n) ==
    IF n = 0 THEN <<>>
    ELSE NumberedPlan(n - 1) \o Ch(ToString(n)) \o Ch(".") \o Ch(" ")
         \o Ch(StepNames[n]) \o Ch("\n")

PlanResponses == {NumberedPlan(n) : n \in 0..MaxPlan}

\* The cost a Generation Port call reports (calculate_cost of the usage the
\* backend returns), in whole units.
Costs == {2}

\* Errors of a Generation Port call (llm/*.rs send_request).
PortErrors ==
    {AgentError("LLMError", Lit("OpenAI API Error: ", 18) \o Short),
     AgentError("RequestError", NetMsg)}

Obj(thought, name, params) ==
    [wf |-> TRUE,
     value |-> JObj([thought |-> thought, tool_name |-> JStr(name), parameters |-> params])]

WithFilePath(r, fp) ==
    [r EXCEPT !.value.fields = [file_path |-> fp] @@ @]

Without(r, key) ==
    [r EXCEPT !.value.fields = [f \in (DOMAIN @) \ {key} |-> @[f]]]

Thought == JStr(Lit("because", 7))
OutPath == Lit("out.py", 6)

GoodResponses ==
    {Obj(Thought, VariantText("ReadFile"), JObj([path |-> JStr(Lit("a.txt", 5))])),
     Obj(Thought, VariantText("WriteFile"),
         JObj([path |-> JStr(Lit("a.txt", 5)), content |-> JStr(Short)])),
     Obj(Thought, VariantText("RunCommand"), JObj([command |-> JStr(Lit("exit 1", 6))])),
     Obj(Thought, VariantText("Search"), JObj([query |-> JStr(Lit("rust", 4))])),
     Obj(Thought, VariantText("ListFiles"), JObj([path |-> JStr(Ch("."))])),
     Obj(Thought, VariantText("CodeGeneration"), JObj([task |-> JStr(Lit("write", 5))]))}

BadResponses ==
    {[wf |-> FALSE, value |-> JNull],
     Obj(Thought, Lit("InvalidTool", 11), JObj(<<>>)),
     Without(Obj(Thought, VariantText("ListFiles"), JObj([path |-> JStr(Ch("."))])), "thought"),
     Obj(Thought, VariantText("WriteFile"), JObj([path |-> JStr(Lit("a.txt", 5))]))}

\* The answers of the Decision Resolver's backend in the orchestrator runs.
DecisionResponses ==
    GoodResponses \cup BadResponses
    \cup {WithFilePath(r, JStr(OutPath)) : r \in
            {Obj(Thought, VariantText("CodeGeneration"), JObj([task |-> JStr(Lit("write", 5))])),
             Obj(Thought, VariantText("ReadFile"), JObj([path |-> JStr(Lit("a.txt", 5))]))}}

CodeResponses == {Ch(" ") \o Lit("print(1)", 8) \o Ch("\n"), Straddle500}

Entry(path) == [ok |-> TRUE, path |-> path]
\* The walks of ".": a root that WalkDir cannot read (one error, WalkDir
\* always yields the root), a tree with an entry in error, a long path.
Listings ==
    {<<[ok |-> FALSE, path |-> <<>>]>>,
     <<Entry(Ch(".")), Entry(Ch(".") \o Ch("/") \o Lit("main.rs", 7)),
       Entry(Ch(".") \o Ch("/") \o Lit("target", 6) \o Ch("/") \o Lit("app", 3)),
       [ok |-> FALSE, path |-> <<>>]>>,
     <<Entry(Ch(".") \o Ch("/") \o Straddle500)>>}

\* The i-th result of the provider's answer.
SearchResult(i) ==
    [title |-> Lit("t", 1) \o Ch(ToString(i)), url |-> Lit("u", 1) \o Ch(ToString(i)),
     description |-> Lit("d", 1) \o Ch(ToString(i))]

\* What the outside world can answer to the I/O of a tool, given whether the
\* search credential is set in the environment.
Worlds(tool, brave_key) ==
    CASE tool.tool_name = "ReadFile" ->
            {[fs |-> "ok", content |-> c] : c \in {Short, LongAscii, Straddle300, Straddle500}}
            \cup {[fs |-> "err", msg |-> IoMsg]}
      [] tool.tool_name = "WriteFile" -> {[fs |-> "ok"], [fs |-> "err", msg |-> IoMsg]}
      [] tool.tool_name = "RunCommand" ->
            {[spawn |-> "err", msg |-> IoMsg],
             [spawn |-> "ok", success |-> TRUE, stdout |-> Short, stderr |-> Lit("warning", 7)],
             [spawn |-> "ok", success |-> FALSE, stdout |-> <<>>,
              stderr |-> Lit("boom", 4) \o Ch("<invalid byte>")]}
      [] tool.tool_name = "Search" ->
            IF ~brave_key THEN {[key |-> FALSE]}
            ELSE {[key |-> TRUE, send |-> "err", msg |-> NetMsg],
                  [key |-> TRUE, send |-> "ok", status_success |-> FALSE, body |-> "ok",
                   text |-> Lit("rate limited", 12)],
                  [key |-> TRUE, send |-> "ok", status_success |-> TRUE, body |-> "err",
                   msg |-> NetMsg],
                  [key |-> TRUE, send |-> "ok", status_success |-> TRUE, body |-> "ok",
                   results |-> <<SearchResult(1), SearchResult(2), SearchResult(3),
                                 SearchResult(4)>>],
                  [key |-> TRUE, send |-> "ok", status_success |-> TRUE, body |-> "ok",
                   results |-> <<SearchResult(2), SearchResult(1)>>]}
      [] tool.tool_name = "ListFiles" -> {[entries |-> es] : es \in Listings}
      [] tool.tool_name = "CodeGeneration" -> {[none |-> TRUE]}

(***************************************************************************)
(* State.  pc is the position of the process: "prompt" is the top of the   *)
(* session loop of main, "gather", "plan", "decide", "coder", "save" and   *)
(* "tool" are the await points of Orchestrator::run, "report" is the       *)
(* return of run into main, "exited" the end of main and "panicked" a      *)
(* panic of the process.                                                   *)
(***************************************************************************)
VARIABLES
    pc,            \* position of the process
    config,        \* AppConfig, loaded once: which credentials are set
    goal,          \* AppState.goal
    plan,          \* AppState.plan
    history,       \* AppState.history
    current_step,  \* AppState.current_step
    idx,           \* the loop variable i of execute_plan
    total_cost,    \* CostTracker.total_cost of the tracker created last
    decision,      \* the Decision of the step in progress
    code,          \* the generated code of the step in progress
    result,        \* the value returned by Orchestrator::run
    trace,         \* the calls the orchestrator has made in this run, in order
    last_msg,      \* the last message main printed
    call           \* a direct call of a library function: its argument and result

vars == <<pc, config, goal, plan, history, current_step, idx, total_cost,
          decision, code, result, trace, last_msg, call>>

Ok == [some |-> TRUE, ok |-> TRUE]
Err(e) == [some |-> TRUE, ok |-> FALSE, err |-> e]

NoDecision == [thought |-> <<>>, tool |-> [tool_name |-> "none"], file_path |-> None]

NoCall == [fn |-> "none"]

Configs == [llm_key : BOOLEAN, reasoning_key : BOOLEAN, brave_key : BOOLEAN]

Init ==
    /\ pc = "prompt"
    /\ config \in Configs
    /\ goal = <<>>
    /\ plan = <<>>
    /\ history = <<>>
    /\ current_step = 0
    /\ idx = 0
    /\ total_cost = 0
    /\ decision = NoDecision
    /\ code = <<>>
    /\ result = None
    /\ trace = <<>>
    /\ last_msg = "banner"
    /\ call = NoCall

(***************************************************************************)
(* main (main.rs): the session loop.                                       *)
(***************************************************************************)
Inputs ==
    {Lit("quit", 4), Lit("EXIT", 4) \o Ch("\n"), Ch("\n"), Rep(" ", 2) \o Ch("\n"),
     Lit("demo", 4) \o Ch("\n"), Lit("quit", 4) \o Ch(" ") \o Lit("now", 3) \o Ch("\n")}

\* to_ascii_lowercase of the literals typed in Inputs.
AsciiLower(t) ==
    [i \in 1..Len(t) |-> IF t[i].c = "EXIT" THEN [t[i] EXCEPT !.c = "exit"] ELSE t[i]]

eq_ignore_ascii_case(a, b) == AsciiLower(a) = AsciiLower(b)

\* CostTracker::new() in the loop body (main.rs:103): a tracker of its own
\* for every run, starting at zero.
CostTracker_new == 0

\* One pass of the loop body up to the call of orchestrator.run().
ReadGoal ==
    /\ pc = "prompt"
    /\ \E line \in Inputs :
        LET g == Trim(line) IN
        IF eq_ignore_ascii_case(g, Lit("quit", 4)) \/ eq_ignore_ascii_case(g, Lit("exit", 4))
        THEN /\ pc' = "exited"
             /\ last_msg' = "Exiting agent. Goodbye!"
             /\ UNCHANGED <<goal, plan, history, current_step, idx, total_cost,
                            decision, code, result, trace>>
        ELSE IF g = <<>>
        THEN /\ pc' = "prompt"
             /\ last_msg' = "Goal cannot be empty. Please enter a valid goal."
             /\ UNCHANGED <<goal, plan, history, current_step, idx, total_cost,
                            decision, code, result, trace>>
        ELSE IF ~config.llm_key \/ ~config.reasoning_key
        THEN \* create_llm_client(..)? returns the error out of main
             /\ pc' = "exited"
             /\ last_msg' = "Error: ApiKeyMissing"
             /\ UNCHANGED <<goal, plan, history, current_step, idx, total_cost,
                            decision, code, result, trace>>
        ELSE /\ pc' = "gather"
             /\ total_cost' = CostTracker_new
             /\ goal' = AppState_new(g).goal
             /\ plan' = AppState_new(g).plan
             /\ history' = AppState_new(g).history
             /\ current_step' = AppState_new(g).current_step
             /\ idx' = 0
             /\ decision' = NoDecision
             /\ code' = <<>>
             /\ result' = None
             /\ trace' = <<>>
             /\ last_msg' = "Current Session Cost"
    /\ UNCHANGED <<config, call>>

\* The match on the result of orchestrator.run(); the orchestrator is
\* dropped at the end of the loop body.  total_cost keeps the total of the
\* run's tracker until the next pass creates its own (main.rs:103).
Report ==
    /\ pc = "report"
    /\ pc' = "prompt"
    /\ last_msg' = IF result.ok THEN "Task Completed Successfully!" ELSE "Task Failed"
    /\ goal' = <<>>
    /\ plan' = <<>>
    /\ history' = <<>>
    /\ current_step' = 0
    /\ idx' = 0
    /\ total_cost' = total_cost
    /\ decision' = NoDecision
    /\ code' = <<>>
    /\ result' = None
    /\ trace' = <<>>
    /\ UNCHANGED <<config, call>>

(***************************************************************************)
(* Orchestrator (orchestrator.rs).  Each action is the code between two    *)
(* await points of run, up to and including the completion of the await.   *)
(* trace records the calls made: a run_tool call with its step (-1 before  *)
(* the plan), tool, the answer of the outside world and the outcome; an    *)
(* agent call with its step, the length of the history at the call and the *)
(* cost the Generation Port reported (0 if the port call failed); a        *)
(* decide_action call also with its prompt and, if the port call           *)
(* succeeded, with the Decision; a generate_code call whose port call      *)
(* succeeded also with the response of the backend.                        *)
(***************************************************************************)
ToolCall(step, tool, w, r) ==
    [op |-> "run_tool", step |-> step, tool |-> tool, w |-> w, r |-> r]
AgentCall(op, step, h, ok, cost) ==
    [op |-> op, step |-> step, hist |-> Len(h), ok |-> ok, cost |-> cost]

\* A decide_action call: an agent call that also records the Decision parsed
\* from the response (NoDecision if the response did not parse).
DecideCall(step, h, parsed, cost) ==
    [op |-> "decide_action", step |-> step, hist |-> Len(h), ok |-> parsed.ok, cost |-> cost,
     decision |-> IF parsed.ok THEN parsed.v ELSE NoDecision]

\* Mutant: a decision with an output path goes to the save of the code.
Route_saves_with_path(d) ==
    IF d.tool.tool_name = "CodeGeneration" THEN "coder"
    ELSE IF d.file_path.some THEN "save" ELSE "tool"

\* Mutant: every decision goes to the dispatcher.
Route_all_tools(d) == "tool"

\* match decision.tool: the CodeGeneration arm or the other_tool arm.
Route(d) == IF d.tool.tool_name = "CodeGeneration" THEN "coder" ELSE "tool"

\* Mutant: a failure is recorded under the label of a success, without text.
tool_entry_unlabelled(r) ==
    IF r.ok THEN <<Lit("Tool Output", 11), r.out>>
    ELSE <<Lit("Tool Output", 11), <<>>>>

\* Mutant: the summary printed for display is what is stored.
tool_entry_summarized(r) ==
    IF r.ok THEN <<Lit("Tool Output", 11), Summarize(r.out, SummaryCap)>>
    ELSE <<Lit("Tool Error", 10), ErrorToString(r.err)>>

\* match result: the history entry of a dispatched tool.
tool_entry(r) ==
    IF r.ok THEN <<Lit("Tool Output", 11), r.out>>
    ELSE <<Lit("Tool Error", 10), ErrorToString(r.err)>>

\* A panic unwinds out of run and main.
Panic ==
    /\ pc' = "panicked"
    /\ UNCHANGED <<plan, history, idx, total_cost, decision, code, result, trace>>

\* Mutant: the error is dropped and the loop goes on.
Abort_swallow(e) ==
    /\ pc' = "decide"
    /\ result' = result

\* "?" on a failed call: run returns the error.
Abort(e) ==
    /\ pc' = "report"
    /\ result' = Err(e)

\* Mutant: the loop steps over the next index.
Advance_skip ==
    /\ idx' = idx + 2
    /\ decision' = NoDecision
    /\ code' = <<>>
    /\ IF idx + 2 < Len(plan)
       THEN pc' = "decide" /\ result' = result
       ELSE pc' = "report" /\ result' = Ok

\* Mutant: the loop variable is not advanced.
Advance_stay ==
    /\ idx' = idx
    /\ decision' = NoDecision
    /\ code' = <<>>
    /\ pc' = "decide"
    /\ result' = result

\* The end of one iteration of the for loop of execute_plan (the locals of
\* the iteration are dropped), and the end of the loop.
Advance ==
    /\ idx' = idx + 1
    /\ decision' = NoDecision
    /\ code' = <<>>
    /\ IF idx + 1 < Len(plan)
       THEN pc' = "decide" /\ result' = result
       ELSE pc' = "report" /\ result' = Ok

\* Mutant: an empty listing is not recorded.
gather_initial_context_skip_empty ==
    /\ pc = "gather"
    /\ \E w \in Worlds(ListFiles(Ch(".")), config.brave_key) :
        LET r == run_tool(ListFiles(Ch(".")), w) IN
        /\ trace' = Append(trace, ToolCall(-1, ListFiles(Ch(".")), w, r))
        /\ IF r.ok
           THEN /\ history' = IF r.out = <<>> THEN history
                              ELSE add_history(history, Lit("Initial Directory Listing", 25), r.out)
                /\ pc' = "plan"
                /\ result' = result
           ELSE /\ Abort(r.err)
                /\ history' = history
    /\ UNCHANGED <<config, goal, last_msg, call>>
    /\ UNCHANGED <<plan, current_step, idx, total_cost, decision, code>>

\* Orchestrator::gather_initial_context: "?" on the dispatch, then the append.
gather_initial_context ==
    /\ pc = "gather"
    /\ \E w \in Worlds(ListFiles(Ch(".")), config.brave_key) :
        LET r == run_tool(ListFiles(Ch(".")), w) IN
        /\ trace' = Append(trace, ToolCall(-1, ListFiles(Ch(".")), w, r))
        /\ IF r.ok
           THEN /\ history' = add_history(history, Lit("Initial Directory Listing", 25), r.out)
                /\ pc' = "plan"
                /\ result' = result
           ELSE /\ Abort(r.err)
                /\ history' = history
    /\ UNCHANGED <<config, goal, last_msg, call>>
    /\ UNCHANGED <<plan, current_step, idx, total_cost, decision, code>>

\* Mutant: a plan without steps is an error of the run.
create_plan_reject_empty ==
    /\ pc = "plan"
    /\ IF get_context(goal, history).panic
       THEN Panic
       ELSE /\ \/ \E e \in PortErrors :
                    /\ trace' = Append(trace, AgentCall("create_plan", -1, history, FALSE, 0))
                    /\ Abort(e)
                    /\ UNCHANGED <<plan, idx>>
               \/ \E response \in PlanResponses, cost \in Costs :
                    /\ trace' = Append(trace, AgentCall("create_plan", -1, history, TRUE, cost))
                    /\ plan' = parse_plan(response)
                    /\ idx' = 0
                    /\ IF Len(parse_plan(response)) > 0
                       THEN pc' = "decide" /\ result' = result
                       ELSE Abort(AgentError("ResponseParseError", Lit("empty plan", 10)))
            /\ UNCHANGED <<history, total_cost, decision, code>>
    /\ UNCHANGED <<config, goal, last_msg, call>>
    /\ UNCHANGED current_step

\* Orchestrator::create_plan with PlannerAgent::create_plan.  The planner
\* holds no cost tracker: the cost the port reports for the call is not added.
create_plan ==
    /\ pc = "plan"
    /\ IF get_context(goal, history).panic
       THEN Panic
       ELSE /\ \/ \E e \in PortErrors :
                    /\ trace' = Append(trace, AgentCall("create_plan", -1, history, FALSE, 0))
                    /\ Abort(e)
                    /\ UNCHANGED <<plan, idx>>
               \/ \E response \in PlanResponses, cost \in Costs :
                    /\ trace' = Append(trace, AgentCall("create_plan", -1, history, TRUE, cost))
                    /\ plan' = parse_plan(response)
                    /\ idx' = 0
                    /\ IF Len(parse_plan(response)) > 0
                       THEN pc' = "decide" /\ result' = result
                       ELSE pc' = "report" /\ result' = Ok
            /\ UNCHANGED <<history, total_cost, decision, code>>
    /\ UNCHANGED <<config, goal, last_msg, call>>
    /\ UNCHANGED current_step

\* Mutant: the prompt is built without the context.
get_decision_prompt_no_context(step, context) == [step |-> step, context |-> <<>>]

\* tools::get_decision_prompt: the fixed text with its two holes filled.
get_decision_prompt(step, context) == [step |-> step, context |-> context]

\* The decide_action call of the current step with the prompt it hands to
\* the backend: the step and the context rendered at the call.
Prompted(e, context) ==
    LET step == IF idx + 1 \in DOMAIN plan THEN plan[idx + 1] ELSE <<>> IN
    [prompt |-> get_decision_prompt(step, context)] @@ e

\* Mutant: the Decision Resolver records its thought in the history.
decide_action_records_thought ==
    /\ pc = "decide"
    /\ current_step' = idx
    /\ LET context == get_context(goal, history) IN
       IF context.panic
       THEN Panic
       ELSE /\ \/ \E e \in PortErrors :
                    /\ trace' = Append(trace, Prompted(AgentCall("decide_action", idx, history,
                                                                    FALSE, 0),
                                                          context.text))
                    /\ Abort(e)
                    /\ UNCHANGED <<total_cost, decision, history>>
               \/ \E response \in DecisionResponses, cost \in Costs :
                    /\ total_cost' = total_cost + cost
                    /\ trace' = Append(trace, Prompted(DecideCall(idx, history,
                                                         ParseDecision(response), cost),
                                                        context.text))
                    /\ IF ParseDecision(response).ok
                       THEN /\ decision' = ParseDecision(response).v
                            /\ history' = add_history(history, Lit("Thought", 7),
                                                      ParseDecision(response).v.thought)
                            /\ pc' = Route(ParseDecision(response).v)
                            /\ result' = result
                       ELSE /\ Abort(AgentError("ResponseParseError",
                                                Lit("Failed to parse tool decision: ", 31)))
                            /\ UNCHANGED <<decision, history>>
            /\ UNCHANGED <<plan, idx, code>>
    /\ UNCHANGED <<config, goal, last_msg, call>>

\* Mutant: the cost is added once the response has been parsed.
decide_action_cost_after_parse ==
    /\ pc = "decide"
    /\ current_step' = idx
    /\ LET context == get_context(goal, history) IN
       IF context.panic
       THEN Panic
       ELSE /\ \/ \E e \in PortErrors :
                    /\ trace' = Append(trace, Prompted(AgentCall("decide_action", idx, history,
                                                                    FALSE, 0),
                                                          context.text))
                    /\ Abort(e)
                    /\ UNCHANGED <<total_cost, decision>>
               \/ \E response \in DecisionResponses, cost \in Costs :
                    /\ total_cost' = IF ParseDecision(response).ok
                                     THEN total_cost + cost ELSE total_cost
                    /\ trace' = Append(trace, Prompted(DecideCall(idx, history,
                                                         ParseDecision(response), cost),
                                                        context.text))
                    /\ IF ParseDecision(response).ok
                       THEN /\ decision' = ParseDecision(response).v
                            /\ pc' = Route(ParseDecision(response).v)
                            /\ result' = result
                       ELSE /\ Abort(AgentError("ResponseParseError",
                                                Lit("Failed to parse tool decision: ", 31)))
                            /\ decision' = decision
            /\ UNCHANGED <<plan, history, idx, code>>
    /\ UNCHANGED <<config, goal, last_msg, call>>

\* Mutant: the cursor counts the steps from 1.
decide_action_cursor_one_based ==
    /\ pc = "decide"
    /\ current_step' = idx + 1
    /\ LET context == get_context(goal, history) IN
       IF context.panic
       THEN Panic
       ELSE /\ \/ \E e \in PortErrors :
                    /\ trace' = Append(trace, Prompted(AgentCall("decide_action", idx, history,
                                                                    FALSE, 0),
                                                          context.text))
                    /\ Abort(e)
                    /\ UNCHANGED <<total_cost, decision>>
               \/ \E response \in DecisionResponses, cost \in Costs :
                    /\ total_cost' = total_cost + cost
                    /\ trace' = Append(trace, Prompted(DecideCall(idx, history,
                                                         ParseDecision(response), cost),
                                                        context.text))
                    /\ IF ParseDecision(response).ok
                       THEN /\ decision' = ParseDecision(response).v
                            /\ pc' = Route(ParseDecision(response).v)
                            /\ result' = result
                       ELSE /\ Abort(AgentError("ResponseParseError",
                                                Lit("Failed to parse tool decision: ", 31)))
                            /\ decision' = decision
            /\ UNCHANGED <<plan, history, idx, code>>
    /\ UNCHANGED <<config, goal, last_msg, call>>

\* The head of an iteration of execute_plan with Orchestrator::decide_action.
\* The text of the parse error (serde's message and the response) is left out.
decide_action ==
    /\ pc = "decide"
    /\ current_step' = idx
    /\ LET context == get_context(goal, history) IN
       IF context.panic
       THEN Panic
       ELSE /\ \/ \E e \in PortErrors :
                    /\ trace' = Append(trace, Prompted(AgentCall("decide_action", idx, history,
                                                                    FALSE, 0),
                                                          context.text))
                    /\ Abort(e)
                    /\ UNCHANGED <<total_cost, decision>>
               \/ \E response \in DecisionResponses, cost \in Costs :
                    /\ total_cost' = total_cost + cost
                    /\ trace' = Append(trace, Prompted(DecideCall(idx, history,
                                                         ParseDecision(response), cost),
                                                        context.text))
                    /\ IF ParseDecision(response).ok
                       THEN /\ decision' = ParseDecision(response).v
                            /\ pc' = Route(ParseDecision(response).v)
                            /\ result' = result
                       ELSE /\ Abort(AgentError("ResponseParseError",
                                                Lit("Failed to parse tool decision: ", 31)))
                            /\ decision' = decision
            /\ UNCHANGED <<plan, history, idx, code>>
    /\ UNCHANGED <<config, goal, last_msg, call>>

\* The CodeGeneration arm up to the history append, with
\* CoderAgent::generate_code.
generate_code ==
    /\ pc = "coder"
    /\ IF get_context(goal, history).panic
       THEN Panic
       ELSE /\ \/ \E e \in PortErrors :
                    /\ trace' = Append(trace, AgentCall("generate_code", idx, history, FALSE, 0))
                    /\ Abort(e)
                    /\ UNCHANGED <<total_cost, code, history, idx, decision>>
               \/ \E response \in CodeResponses, cost \in Costs :
                    /\ trace' = Append(trace, [response |-> response]
                                         @@ AgentCall("generate_code", idx, history, TRUE, cost))
                    /\ total_cost' = total_cost + cost
                    /\ history' = add_history(history, Lit("Generated Code", 14),
                                              parse_code(response))
                    /\ IF decision.file_path.some
                       THEN /\ pc' = "save"
                            /\ code' = parse_code(response)
                            /\ UNCHANGED <<result, idx, decision>>
                       ELSE Advance
            /\ UNCHANGED plan
    /\ UNCHANGED <<config, goal, last_msg, call>>
    /\ UNCHANGED current_step

\* Mutant: the WriteFile dispatch is followed by "?".
save_code_propagate ==
    /\ pc = "save"
    /\ LET tool == WriteFile(decision.file_path.v, code) IN
       \E w \in Worlds(tool, config.brave_key) :
            /\ trace' = Append(trace, ToolCall(idx, tool, w, run_tool(tool, w)))
            /\ IF run_tool(tool, w).ok THEN Advance
               ELSE Abort(run_tool(tool, w).err) /\ UNCHANGED <<idx, decision, code>>
    /\ UNCHANGED <<config, goal, last_msg, call>>
    /\ UNCHANGED <<plan, history, current_step, total_cost>>

\* Mutant: the file gets the code with a final newline.
save_code_newline ==
    /\ pc = "save"
    /\ LET tool == WriteFile(decision.file_path.v, code \o Ch("\n")) IN
       \E w \in Worlds(tool, config.brave_key) :
            trace' = Append(trace, ToolCall(idx, tool, w, run_tool(tool, w)))
    /\ Advance
    /\ UNCHANGED <<config, goal, last_msg, call>>
    /\ UNCHANGED <<plan, history, current_step, total_cost>>

\* if let Some(path) = decision.file_path: the WriteFile dispatch.
save_code ==
    /\ pc = "save"
    /\ LET tool == WriteFile(decision.file_path.v, code) IN
       \E w \in Worlds(tool, config.brave_key) :
            trace' = Append(trace, ToolCall(idx, tool, w, run_tool(tool, w)))
    /\ Advance
    /\ UNCHANGED <<config, goal, last_msg, call>>
    /\ UNCHANGED <<plan, history, current_step, total_cost>>

\* Mutant: the dispatch of the other_tool arm is followed by "?".
use_tool_propagate ==
    /\ pc = "tool"
    /\ \E w \in Worlds(decision.tool, config.brave_key) :
        LET r == run_tool(decision.tool, w) IN
        IF r.ok /\ SlicePanics(r.out, SummaryCap)
        THEN Panic
        ELSE /\ trace' = Append(trace, ToolCall(idx, decision.tool, w, r))
             /\ IF r.ok
                THEN /\ history' = add_history(history, tool_entry(r)[1], tool_entry(r)[2])
                     /\ Advance
                ELSE /\ Abort(r.err)
                     /\ UNCHANGED <<history, idx, decision, code>>
             /\ UNCHANGED <<plan, total_cost>>
    /\ UNCHANGED <<config, goal, last_msg, call>>
    /\ UNCHANGED current_step

\* Mutant: the executed step is marked in the plan.
use_tool_marks_step ==
    /\ pc = "tool"
    /\ \E w \in Worlds(decision.tool, config.brave_key) :
        LET r == run_tool(decision.tool, w) IN
        IF r.ok /\ SlicePanics(r.out, SummaryCap)
        THEN Panic
        ELSE /\ trace' = Append(trace, ToolCall(idx, decision.tool, w, r))
             /\ history' = add_history(history, tool_entry(r)[1], tool_entry(r)[2])
             /\ Advance
             /\ plan' = [plan EXCEPT ![idx + 1] = Lit("done: ", 6) \o @]
             /\ total_cost' = total_cost
    /\ UNCHANGED <<config, goal, last_msg, call>>
    /\ UNCHANGED current_step

\* The other_tool arm.
use_tool ==
    /\ pc = "tool"
    /\ \E w \in Worlds(decision.tool, config.brave_key) :
        LET r == run_tool(decision.tool, w) IN
        IF r.ok /\ SlicePanics(r.out, SummaryCap)
        THEN Panic
        ELSE /\ trace' = Append(trace, ToolCall(idx, decision.tool, w, r))
             /\ history' = add_history(history, tool_entry(r)[1], tool_entry(r)[2])
             /\ Advance
             /\ UNCHANGED <<plan, total_cost>>
    /\ UNCHANGED <<config, goal, last_msg, call>>
    /\ UNCHANGED current_step

Next ==
    \/ ReadGoal
    \/ Report
    \/ gather_initial_context
    \/ create_plan
    \/ decide_action
    \/ generate_code
    \/ save_code
    \/ use_tool

Spec == Init /\ [][Next]_vars

(***************************************************************************)
(* Direct calls of the library (lib.rs re-exports run_tool and Decision;   *)
(* tests/tools_tests.rs and tests/orchestrator_tests.rs call them this     *)
(* way).  DispatchSpec calls run_tool on any action (call.w is the answer  *)
(* of the outside world to the call), ParseSpec parses any response of the *)
(* wire format.                                                            *)
(***************************************************************************)
Blank ==
    /\ pc = "lib"
    /\ config = [llm_key |-> TRUE, reasoning_key |-> TRUE, brave_key |-> TRUE]
    /\ goal = <<>>
    /\ plan = <<>>
    /\ history = <<>>
    /\ current_step = 0
    /\ idx = 0
    /\ total_cost = 0
    /\ decision = NoDecision
    /\ code = <<>>
    /\ result = None
    /\ trace = <<>>
    /\ last_msg = "none"

LibFrame ==
    UNCHANGED <<pc, config, goal, plan, history, current_step, idx, total_cost,
                decision, code, result, trace, last_msg>>

\* A call that has not returned yet.
Pending == [pending |-> TRUE]

Strings == {<<>>, Ch("."), Lit("a.txt", 5), Lit("exit 1", 6), Short}

DispatchTools ==
    {ReadFile(p) : p \in Strings}
    \cup {WriteFile(p, c) : p \in Strings, c \in Strings}
    \cup {RunCommand(c) : c \in Strings}
    \cup {Search(q) : q \in Strings}
    \cup {ListFiles(p) : p \in Strings}
    \cup {CodeGeneration(t) : t \in Strings}

DispatchInit ==
    /\ Blank
    /\ \E tool \in DispatchTools :
        call = [fn |-> "run_tool", arg |-> tool, w |-> Pending, ret |-> Pending]

Dispatch ==
    /\ call.fn = "run_tool"
    /\ call.ret = Pending
    /\ \E key \in BOOLEAN :
        \E w \in Worlds(call.arg, key) :
            call' = [call EXCEPT !.w = w, !.ret = run_tool(call.arg, w)]
    /\ LibFrame

DispatchSpec == DispatchInit /\ [][Dispatch]_vars

\* The values a key of the response can hold; Absent: the key is omitted.
Absent == [k |-> "absent"]
X == Lit("x", 1)
Y == Lit("y", 1)

Present(m) == [f \in {g \in DOMAIN m : m[g] # Absent} |-> m[f]]

ParamKeys == {"path", "content", "command", "query", "task", "extra"}
ParamValues == {Absent, JStr(X), JNull}

\* Objects with at most two keys, sequences of at most two items, and the
\* values that are neither.
ParameterValues ==
    {JObj(Present([f \in {a, b} |-> IF f = a THEN va ELSE vb])) :
        a \in ParamKeys, b \in ParamKeys, va \in ParamValues, vb \in ParamValues}
    \cup {JSeq(<<>>), JSeq(<<JStr(X)>>), JSeq(<<JNull>>), JSeq(<<JStr(X), JStr(Y)>>),
          JSeq(<<JStr(X), JStr(Y), JStr(X)>>)}
    \cup {Absent, JNull, JStr(X), JNum}

ToolNameValues ==
    {JStr(VariantText(name)) : name \in ToolNames}
    \cup {Absent, JNull, JNum, JStr(Lit("InvalidTool", 11)), JStr(Lit("readfile", 8)), JStr(<<>>)}

WireResponses ==
    {[wf |-> wf,
      value |-> JObj(Present([thought |-> th, tool_name |-> tn, parameters |-> pa,
                              file_path |-> fp]))] :
        wf \in BOOLEAN, th \in {Absent, JNull, JStr(X)}, tn \in ToolNameValues,
        pa \in ParameterValues, fp \in {Absent, JNull, JNum, JStr(<<>>), JStr(Y)}}
    \cup {[wf |-> TRUE, value |-> v] : v \in {JNull, JNum, JStr(X), JSeq(<<>>)}}

ParseInit ==
    /\ Blank
    /\ \E r \in WireResponses : call = [fn |-> "from_str", arg |-> r, ret |-> Pending]

Parse ==
    /\ call.fn = "from_str"
    /\ call.ret = Pending
    /\ call' = [call EXCEPT !.ret = ParseDecision(call.arg)]
    /\ LibFrame

ParseSpec == ParseInit /\ [][Parse]_vars

(***************************************************************************)
(* CostTracker (cost_tracker.rs) shared by concurrent callers: each thread *)
(* of call.th makes one add_cost(call.cost) on the tracker whose total is  *)
(* total_cost.  add_cost is lock(), the load and the store of              *)
(* "*total_cost += cost", and the drop of the guard at the end of the      *)
(* body.  call.mutex is the holder of the Mutex, 0 if it is free.  No step *)
(* panics while the guard is held, so the Mutex is never poisoned and      *)
(* unwrap() never panics.  Costs are counted in whole units.               *)
(***************************************************************************)
Threads == 1..call.n

CostInit ==
    /\ pc = "lib"
    /\ config = [llm_key |-> TRUE, reasoning_key |-> TRUE, brave_key |-> TRUE]
    /\ goal = <<>>
    /\ plan = <<>>
    /\ history = <<>>
    /\ current_step = 0
    /\ idx = 0
    /\ total_cost \in 0..1
    /\ decision = NoDecision
    /\ code = <<>>
    /\ result = None
    /\ trace = <<>>
    /\ last_msg = "none"
    /\ \E n \in 1..MaxThreads, c \in 0..2 :
        call = [fn |-> "add_cost", n |-> n, cost |-> c, initial |-> total_cost, mutex |-> 0,
                th |-> [i \in 1..n |-> [at |-> "call", tmp |-> 0]]]

CostFrame ==
    UNCHANGED <<pc, config, goal, plan, history, current_step, idx,
                decision, code, result, trace, last_msg>>

\* Mutant: lock() returns without waiting for the holder.
lock_available_always(mutex) == TRUE

\* Mutex::lock returns once no other thread holds the guard.
lock_available(mutex) == mutex = 0

\* let mut total_cost = self.total_cost.lock().unwrap();
Lock(i) ==
    /\ call.fn = "add_cost"
    /\ call.th[i].at = "call"
    /\ lock_available(call.mutex)
    /\ call' = [call EXCEPT !.mutex = i, !.th[i].at = "locked"]
    /\ total_cost' = total_cost
    /\ CostFrame

\* *total_cost += cost: the read of the total
Load(i) ==
    /\ call.fn = "add_cost"
    /\ call.th[i].at = "locked"
    /\ call' = [call EXCEPT !.th[i].at = "loaded", !.th[i].tmp = total_cost]
    /\ total_cost' = total_cost
    /\ CostFrame

\* Mutant: the cost is taken off the total.
Store_retract(i) ==
    /\ call.fn = "add_cost"
    /\ call.th[i].at = "loaded"
    /\ total_cost' = call.th[i].tmp - call.cost
    /\ call' = [call EXCEPT !.th[i].at = "stored"]
    /\ CostFrame

\* ... and the write of the sum.
Store(i) ==
    /\ call.fn = "add_cost"
    /\ call.th[i].at = "loaded"
    /\ total_cost' = call.th[i].tmp + call.cost
    /\ call' = [call EXCEPT !.th[i].at = "stored"]
    /\ CostFrame

\* The guard is dropped at the end of add_cost.
Unlock(i) ==
    /\ call.fn = "add_cost"
    /\ call.th[i].at = "stored"
    /\ call' = [call EXCEPT !.mutex = 0, !.th[i].at = "returned"]
    /\ total_cost' = total_cost
    /\ CostFrame

CostNext == \E i \in Threads : Lock(i) \/ Load(i) \/ Store(i) \/ Unlock(i)

CostSpec == CostInit /\ [][CostNext]_vars

(***************************************************************************)
(* AppState used directly (the tests of state.rs): any sequence of         *)
(* add_history calls on a new state, with get_context called at any point. *)
(* call.ret is the result of the last get_context, Pending if the history  *)
(* has changed since.                                                      *)
(***************************************************************************)
HistLabels == {Lit("Tool Output", 11), Lit("Generated Code", 14), Lit("type1", 5)}

\* A 2-byte character that ends at byte offset 500.
Boundary500 == Rep("a", 498) \o Wide("U+00E9", 2) \o Rep("b", 10)

\* Contents below, at and above the cap, one with a 3-byte character over
\* byte offset 500 and one with a 2-byte character that ends there.
HistContents ==
    {Short, Rep("a", 500), Rep("a", 499) \o Ch("b") \o Ch("c"), Straddle500, Boundary500}

RenderInit ==
    /\ pc = "lib"
    /\ config = [llm_key |-> TRUE, reasoning_key |-> TRUE, brave_key |-> TRUE]
    /\ \E g \in {Lit("demo", 4), <<>>} :
        /\ goal = AppState_new(g).goal
        /\ plan = AppState_new(g).plan
        /\ history = AppState_new(g).history
        /\ current_step = AppState_new(g).current_step
    /\ idx = 0
    /\ total_cost = 0
    /\ decision = NoDecision
    /\ code = <<>>
    /\ result = None
    /\ trace = <<>>
    /\ last_msg = "none"
    /\ call = [fn |-> "get_context", ret |-> Pending]

RenderFrame ==
    UNCHANGED <<pc, config, goal, plan, current_step, idx, total_cost,
                decision, code, result, trace, last_msg>>

AddHistory ==
    /\ call.fn = "get_context"
    /\ Len(history) < MaxHist
    /\ \E entry_type \in HistLabels, content \in HistContents :
        history' = add_history(history, entry_type, content)
    /\ call' = [call EXCEPT !.ret = Pending]
    /\ RenderFrame

Render ==
    /\ call.fn = "get_context"
    /\ call.ret = Pending
    /\ call' = [call EXCEPT !.ret = get_context(goal, history)]
    /\ history' = history
    /\ RenderFrame

RenderSpec == RenderInit /\ [][AddHistory \/ Render]_vars

(***************************************************************************)
(* PlannerAgent::parse_plan called directly (the tests of planner.rs) on a *)
(* response of up to MaxLines lines.  A line is written as its parts:      *)
(* leading whitespace, the digits of a numeric marker (none if the line    *)
(* has no marker; the marker is the digits and ". "), the body and         *)
(* trailing whitespace.  call.arg holds the lines and whether the response *)
(* ends with a newline, call.ret.plan the steps returned.                  *)
(***************************************************************************)
PlanLine(lead, num, body, trail) == [lead |-> lead, num |-> num, body |-> body, trail |-> trail]

LineText(l) ==
    l.lead \o (IF l.num = <<>> THEN <<>> ELSE l.num \o Ch(".") \o Ch(" ")) \o l.body \o l.trail

PlanLines ==
    {PlanLine(<<>>, <<>>, <<>>, <<>>),
     PlanLine(Rep(" ", 3), <<>>, <<>>, <<>>),
     PlanLine(Ch("\t"), <<>>, <<>>, <<>>),
     PlanLine(<<>>, Ch("1"), Ch("A"), Ch("\r")),
     PlanLine(Ch(" "), Ch("2"), Ch("B") \o Ch(" ") \o Ch("c"), Rep(" ", 2)),
     PlanLine(<<>>, Ch("1") \o Ch("0"), Ch("a") \o Ch(".") \o Ch(" ") \o Ch("b"), <<>>),
     PlanLine(<<>>, <<>>, Ch("A"), <<>>),
     PlanLine(Ch(" "), <<>>, Ch("v") \o Ch("1") \o Ch(".") \o Ch("2"), <<>>),
     PlanLine(<<>>, <<>>, Ch("a") \o Ch(".") \o Ch(" ") \o Ch("b"), <<>>)}

RECURSIVE JoinLines(_)
JoinLines(ls) ==
    IF ls = <<>> THEN <<>>
    ELSE IF Len(ls) = 1 THEN LineText(ls[1])
    ELSE LineText(ls[1]) \o Ch("\n") \o JoinLines(Tail(ls))

PlanResponse(arg) == JoinLines(arg.lines) \o (IF arg.newline THEN Ch("\n") ELSE <<>>)

RECURSIVE LineSeqs(_)
LineSeqs(n) ==
    IF n = 0 THEN {<<>>}
    ELSE LineSeqs(n - 1)
         \cup {Append(ls, l) : ls \in {q \in LineSeqs(n - 1) : Len(q) = n - 1}, l \in PlanLines}

PlanInit ==
    /\ Blank
    /\ \E ls \in LineSeqs(MaxLines), nl \in BOOLEAN :
        call = [fn |-> "parse_plan", arg |-> [lines |-> ls, newline |-> nl], ret |-> Pending]

ParsePlan ==
    /\ call.fn = "parse_plan"
    /\ call.ret = Pending
    /\ call' = [call EXCEPT !.ret = [plan |-> parse_plan(PlanResponse(call.arg))]]
    /\ LibFrame

PlanSpec == PlanInit /\ [][ParsePlan]_vars

(***************************************************************************)
(* run_tool called directly on ListFiles(".") (tests/tools_tests.rs).  The *)
(* outside world is the sequence of entries WalkDir yields: the root       *)
(* first, every directory before its contents.  An entry is written with   *)
(* its path as a sequence of segments and its kind; a segment is cut into  *)
(* pieces at the names "target" and ".git".  An entry WalkDir could not    *)
(* read is an error entry.                                                 *)
(***************************************************************************)
RECURSIVE PathText(_)
PathText(segs) ==
    IF segs = <<>> THEN <<>>
    ELSE IF Len(segs) = 1 THEN segs[1]
    ELSE segs[1] \o Ch("/") \o PathText(Tail(segs))

WalkEntry(segs, kind) == [ok |-> TRUE, path |-> PathText(segs), segs |-> segs, kind |-> kind]
WalkError == [ok |-> FALSE, path |-> <<>>, segs |-> <<>>, kind |-> "error"]

Target == Lit("target", 6)
DotGit == Lit(".git", 4)

\* The entries of the walk of a tree, in the order WalkDir yields them;
\* parent[i] is the index of the directory entry i lies in (0: none).
TreeEntries ==
    <<WalkEntry(<<Ch(".")>>, "dir"),
      WalkEntry(<<Ch("."), Lit("main.rs", 7)>>, "file"),
      WalkEntry(<<Ch("."), Target>>, "dir"),
      WalkEntry(<<Ch("."), Target, Lit("app", 3)>>, "file"),
      WalkEntry(<<Ch("."), DotGit>>, "dir"),
      WalkEntry(<<Ch("."), DotGit, Lit("config", 6)>>, "file"),
      WalkEntry(<<Ch("."), Lit("my", 2) \o Target>>, "dir"),
      WalkEntry(<<Ch("."), Lit("my", 2) \o Target, Lit("x.rs", 4)>>, "file"),
      WalkEntry(<<Ch("."), Lit("src", 3)>>, "dir"),
      WalkEntry(<<Ch("."), Lit("src", 3), Target>>, "file")>>

TreeParent == <<0, 1, 1, 3, 1, 5, 1, 7, 1, 9>>

\* A tree holds the root and, with an entry, the directory it lies in.
Trees ==
    {t \in SUBSET (1..Len(TreeEntries)) :
        1 \in t /\ \A i \in t : TreeParent[i] = 0 \/ TreeParent[i] \in t}

\* The walk of the entries t of the tree; the entries of unreadable cannot
\* be read and are yielded as errors.
RECURSIVE WalkOf(_, _, _)
WalkOf(t, unreadable, i) ==
    IF i > Len(TreeEntries) THEN <<>>
    ELSE (IF i \notin t THEN <<>>
          ELSE IF i \in unreadable THEN <<WalkError>>
          ELSE <<TreeEntries[i]>>)
         \o WalkOf(t, unreadable, i + 1)

ListInit ==
    /\ Blank
    /\ \/ \E t \in Trees, u \in {{}, {9}} :
            call = [fn |-> "list_files", arg |-> ListFiles(Ch(".")),
                    w |-> [entries |-> WalkOf(t, u, 1)], ret |-> Pending]
       \/ \* a root that does not exist: the walk is one error
          call = [fn |-> "list_files", arg |-> ListFiles(Lit("missing", 7)),
                  w |-> [entries |-> <<WalkError>>], ret |-> Pending]

List ==
    /\ call.fn = "list_files"
    /\ call.ret = Pending
    /\ call' = [call EXCEPT !.ret = run_tool(call.arg, call.w)]
    /\ LibFrame

ListSpec == ListInit /\ [][List]_vars

(***************************************************************************)
(* Serialization (the Serialize derives of tools.rs) and the round trip of *)
(* tests/tools_tests.rs: serde_json::to_string of a Decision or a Tool,    *)
(* then serde_json::from_str of the text.  call.json is the text written,  *)
(* call.ret the value parsed back.  Strings are carried as JSON string     *)
(* values.                                                                 *)
(***************************************************************************)
\* Tool::serialize: the tag under "tool_name", the fields of the variant as
\* a map under "parameters".
SerializeTool(t) ==
    [tool_name |-> JStr(VariantText(t.tool_name)),
     parameters |-> JObj([f \in SeqToSet(ToolFields(t.tool_name)) |-> JStr(t[f])])]

\* Mutant: None is written as the empty string.
SerializeFilePath_empty(fp) == IF fp.some THEN JStr(fp.v) ELSE JStr(<<>>)

\* Option<String>::serialize: None is written as null (the field has no
\* skip_serializing_if).
SerializeFilePath(fp) == IF fp.some THEN JStr(fp.v) ELSE JNull

\* Decision::serialize: one map with "thought", the entries of the flattened
\* tool, and "file_path".
SerializeDecision(d) ==
    [wf |-> TRUE,
     value |-> JObj(("thought" :> JStr(d.thought)) @@ SerializeTool(d.tool)
                    @@ ("file_path" :> SerializeFilePath(d.file_path)))]

\* serde_json::to_string(&tool)
ToolToString(t) == [wf |-> TRUE, value |-> JObj(SerializeTool(t))]

\* serde_json::from_str::<Tool>(json)
ToolFromStr(r) ==
    IF ~r.wf THEN ParseErr("syntax")
    ELSE IF r.value.k # "obj" THEN ParseErr("invalid type")
    ELSE ParseTool(r.value.fields)

\* The Decisions and Tools of the round trip: every variant over Strings,
\* an empty and a non-empty thought, file_path absent, empty and present.
Decisions ==
    [thought : {<<>>, X}, tool : DispatchTools, file_path : {None, Some(<<>>), Some(Y)}]

RoundTripInit ==
    /\ Blank
    /\ \/ \E d \in Decisions :
            call = [fn |-> "round_trip", type |-> "Decision", arg |-> d,
                    json |-> Pending, ret |-> Pending]
       \/ \E t \in DispatchTools :
            call = [fn |-> "round_trip", type |-> "Tool", arg |-> t,
                    json |-> Pending, ret |-> Pending]

to_string ==
    /\ call.fn = "round_trip"
    /\ call.json = Pending
    /\ call' = [call EXCEPT !.json = IF call.type = "Decision"
                                     THEN SerializeDecision(call.arg)
                                     ELSE ToolToString(call.arg)]
    /\ LibFrame

from_str ==
    /\ call.fn = "round_trip"
    /\ call.json # Pending
    /\ call.ret = Pending
    /\ call' = [call EXCEPT !.ret = IF call.type = "Decision"
                                    THEN ParseDecision(call.json)
                                    ELSE ToolFromStr(call.json)]
    /\ LibFrame

RoundTripNext == to_string \/ from_str

RoundTripSpec == RoundTripInit /\ [][RoundTripNext]_vars

(***************************************************************************)
(* The run under the assumption that every call returns.  Orchestrator::run *)
(* is one sequential task: between two await points it runs without        *)
(* waiting, and each await is a Generation Port call or a dispatcher call. *)
(* If every such call returns, the step of the run that is enabled is      *)
(* eventually taken: weak fairness of the steps of the run.  Nothing is    *)
(* assumed about the user: the next goal may never be typed.               *)
(***************************************************************************)
RunStep ==
    \/ gather_initial_context
    \/ create_plan
    \/ decide_action
    \/ generate_code
    \/ save_code
    \/ use_tool

LiveSpec == Init /\ [][Next]_vars /\ WF_vars(RunStep)

(***************************************************************************)
(* Properties.                                                             *)
(***************************************************************************)
Last(q) == q[Len(q)]
IsPrefix(a, b) == Len(a) <= Len(b) /\ SubSeq(b, 1, Len(a)) = a
DispatchableNames == {"ReadFile", "WriteFile", "RunCommand", "Search", "ListFiles"}
IsDecide(e) == e.op = "decide_action"
Done == pc = "report" /\ result = Ok
Aborted == pc = "report" /\ result # Ok

\* C1: when the dispatch of a step's non-CodeGeneration action fails, the
\* step appends exactly one entry <<"Tool Error", text of the failure>>, the
\* run is not aborted and the loop moves to the next index.
C1_ToolFailureRecorded ==
    [][(pc = "tool" /\ decision.tool.tool_name # "CodeGeneration"
        /\ pc' # "panicked" /\ ~Last(trace').r.ok)
       => /\ history' = Append(history, <<Lit("Tool Error", 10),
                                          ErrorToString(Last(trace').r.err)>>)
          /\ idx' = idx + 1
          /\ pc' = (IF idx + 1 < Len(plan) THEN "decide" ELSE "report")
          /\ (pc' = "report" => result' = Ok)]_vars

C1_Witness ==
    /\ pc = "decide"
    /\ idx = 1
    /\ Last(trace).op = "run_tool"
    /\ ~Last(trace).r.ok
    /\ Last(history)[1] = Lit("Tool Error", 10)

\* C2 as stated: run returns an error only if the Plan Generator or the
\* Decision Resolver failed (a failure of the Code Generator leaves the
\* result a success).
C2_Original ==
    Aborted => Last(trace).op \in {"create_plan", "decide_action"}

\* C2 amended: run returns an error only if the call of the Plan Generator,
\* of the Decision Resolver or of the Code Generator failed; a failed tool
\* dispatch or a failed save of the generated code leaves the result a
\* success.
C2_AbortOnlyOnAgentFailure ==
    Aborted =>
        /\ Last(trace).op \in {"create_plan", "decide_action", "generate_code"}
        /\ ~Last(trace).ok
        /\ \A k \in 1..(Len(trace) - 1) : trace[k].op # "run_tool" => trace[k].ok

C2_Witness ==
    /\ Done
    /\ \E k \in 1..Len(trace) :
        trace[k].op = "run_tool" /\ ~trace[k].r.ok /\ trace[k].tool.tool_name = "ReadFile"
    /\ \E k \in 2..Len(trace) :
        /\ trace[k].op = "run_tool" /\ ~trace[k].r.ok
        /\ trace[k - 1].op = "generate_code"

\* C3: a failed Decision Resolver call at step i is the last call of the
\* run: the run has returned the error, nothing was dispatched and no entry
\* was appended for step i, and every earlier call belongs to a step before i.
C3_DecisionFailureAborts ==
    \A k \in 1..Len(trace) :
        (trace[k].op = "decide_action" /\ ~trace[k].ok) =>
            /\ k = Len(trace)
            /\ Aborted
            /\ history = SubSeq(history, 1, trace[k].hist)
            /\ Len(history) = trace[k].hist
            /\ \A j \in 1..(k - 1) : trace[j].step < trace[k].step

C3_Witness ==
    /\ Aborted
    /\ Last(trace).op = "decide_action"
    /\ Last(trace).step = 0
    /\ Len(plan) = 2
    /\ Len(history) = 1

\* C4: the decisions of a run are requested for the steps 0, 1, 2, ... in
\* this order, each once; the decision of step i + 1 is requested when the
\* history holds the entry of every step up to i, right after the dispatch
\* or code generation of step i; a run that ends in success has decided
\* every step of the plan.
C4_SequentialSteps ==
    LET d == SelectSeq(trace, IsDecide) IN
    /\ \A j \in 1..Len(d) : d[j].step = j - 1 /\ d[j].hist = j
    /\ \A k \in 2..Len(trace) :
        (trace[k].op = "decide_action" /\ trace[k].step > 0) =>
            /\ trace[k - 1].op \in {"run_tool", "generate_code"}
            /\ trace[k - 1].step = trace[k].step - 1
    /\ (Done => Len(d) = Len(plan))

C4_Witness ==
    /\ Done
    /\ Len(plan) = 2
    /\ Len(SelectSeq(trace, IsDecide)) = 2

\* C5: during a run (from the creation of the orchestrator to the return of
\* run) every step leaves the old history as a prefix of the new one.
C5_HistoryAppendOnly ==
    [][pc \notin {"prompt", "report"} => IsPrefix(history, history')]_vars

C5_Witness ==
    /\ pc = "decide"
    /\ Len(history) = 2
    /\ history[1][1] = Lit("Initial Directory Listing", 25)
    /\ history[2][1] = Lit("Generated Code", 14)

\* C6: every executed step appends exactly one entry: before step i is
\* decided the history holds 1 + i entries, and a run that ends in success
\* over a plan of n steps ends with 1 + n entries.
C6_OneEntryPerStep ==
    /\ (pc \in {"decide", "coder", "tool"} => Len(history) = 1 + idx)
    /\ (pc = "save" => Len(history) = 2 + idx)
    /\ (Done => Len(history) = 1 + Len(plan))

\* The end-to-end case: one step, decided as ListFiles(".").
C6_Witness ==
    /\ Done
    /\ Len(plan) = 1
    /\ Len(history) = 2
    /\ Last(trace).op = "run_tool"
    /\ Last(trace).step = 0
    /\ Last(trace).tool = ListFiles(Ch("."))

\* C7: every action handed to run_tool is one of the five dispatchable
\* variants, and a CodeGeneration decision is at the Code Generator.
C7_NoCodeGenerationDispatch ==
    /\ \A k \in 1..Len(trace) :
        trace[k].op = "run_tool" => trace[k].tool.tool_name \in DispatchableNames
    /\ (pc = "tool" => decision.tool.tool_name \in DispatchableNames)
    /\ (decision.tool.tool_name = "CodeGeneration" => pc \in {"coder", "save", "report"})

C7_Witness ==
    /\ pc = "coder"
    /\ decision.tool.tool_name = "CodeGeneration"
    /\ Last(trace).op = "decide_action"

\* C8 as stated: a direct dispatch of CodeGeneration fails with the error
\* kind InvalidAction and performs no I/O.
C8_Original ==
    (call.fn = "run_tool" /\ call.ret # Pending /\ call.arg.tool_name = "CodeGeneration")
    => (~call.ret.ok /\ call.ret.err.kind = "InvalidAction" /\ call.ret.io = <<>>)

\* C8 amended: a direct dispatch of CodeGeneration always fails with the
\* error kind ToolError (message "CodeGeneration is not a runnable tool.")
\* and performs no I/O.
C8_CodeGenerationNotRunnable ==
    (call.fn = "run_tool" /\ call.ret # Pending /\ call.arg.tool_name = "CodeGeneration")
    => /\ ~call.ret.ok
       /\ call.ret.err = AgentError("ToolError",
                                    Lit("CodeGeneration is not a runnable tool.", 38))
       /\ call.ret.io = <<>>

C8_Witness ==
    /\ call.fn = "run_tool"
    /\ call.arg.tool_name = "CodeGeneration"
    /\ call.ret # Pending
    /\ ~call.ret.ok

\* C9: a successful Code Generator call appends <<"Generated Code", code>>
\* and goes on to the WriteFile dispatch exactly if the decision has an
\* output path; that dispatch is WriteFile(output path, code), and whether
\* it succeeds or fails the history is left alone and the loop moves to the
\* next index.
C9_CodeGenerationStep ==
    [][/\ (pc = "coder" /\ pc' # "panicked" /\ Last(trace').ok) =>
            /\ IsPrefix(history, history')
            /\ Len(history') = Len(history) + 1
            /\ Last(history')[1] = Lit("Generated Code", 14)
            /\ (pc' = "save" <=> decision.file_path.some)
            /\ (pc' = "save" => code' = Last(history')[2])
            /\ (pc' # "save" => Last(trace').op = "generate_code")
       /\ (pc = "save") =>
            /\ Last(trace').op = "run_tool"
            /\ Last(trace').tool = WriteFile(decision.file_path.v, Last(history)[2])
            /\ history' = history
            /\ idx' = idx + 1
            /\ pc' = (IF idx + 1 < Len(plan) THEN "decide" ELSE "report")
            /\ (pc' = "report" => result' = Ok)]_vars

C9_Witness ==
    /\ pc = "decide"
    /\ Last(trace).op = "run_tool"
    /\ Last(trace).tool.tool_name = "WriteFile"
    /\ ~Last(trace).r.ok
    /\ Last(history)[1] = Lit("Generated Code", 14)

\* C10: a response that is not well-formed JSON, that lacks tool_name or
\* thought, whose tool_name is not one of the six tags or that lacks a
\* field of the chosen variant does not parse; a response that parses
\* yields the named variant with every field as given in the response.
Deficient(r) ==
    \/ ~r.wf
    \/ r.value.k # "obj"
    \/ LET o == r.value.fields IN
       \/ "thought" \notin DOMAIN o
       \/ "tool_name" \notin DOMAIN o
       \/ o["tool_name"].k # "str"
       \/ \A name \in ToolNames : o["tool_name"].s # VariantText(name)
       \/ "parameters" \notin DOMAIN o
       \/ \E name \in ToolNames :
            /\ o["tool_name"].s = VariantText(name)
            /\ \/ /\ o["parameters"].k = "obj"
                  /\ \E f \in SeqToSet(ToolFields(name)) :
                        f \notin DOMAIN o["parameters"].fields
               \/ /\ o["parameters"].k = "seq"
                  /\ Len(o["parameters"].items) < Len(ToolFields(name))

Given(r, name, f) ==
    LET p == r.value.fields["parameters"] IN
    IF p.k = "obj" THEN p.fields[f]
    ELSE p.items[CHOOSE i \in 1..Len(ToolFields(name)) : ToolFields(name)[i] = f]

C10_StrictDecisionParsing ==
    (call.fn = "from_str" /\ call.ret # Pending) =>
        /\ (Deficient(call.arg) => ~call.ret.ok)
        /\ (call.ret.ok =>
              LET tool == call.ret.v.tool IN
              /\ tool.tool_name \in ToolNames
              /\ call.arg.value.fields["tool_name"] = JStr(VariantText(tool.tool_name))
              /\ DOMAIN tool = {"tool_name"} \cup SeqToSet(ToolFields(tool.tool_name))
              /\ \A f \in SeqToSet(ToolFields(tool.tool_name)) :
                    Given(call.arg, tool.tool_name, f) = JStr(tool[f]))

\* A WriteFile response without its content field has been rejected.
C10_Witness ==
    /\ call.fn = "from_str"
    /\ call.ret # Pending
    /\ ~call.ret.ok
    /\ call.arg.wf
    /\ call.arg.value.k = "obj"
    /\ call.arg.value.fields =
         [thought |-> JStr(X), tool_name |-> JStr(VariantText("WriteFile")),
          parameters |-> JObj([path |-> JStr(X)])]

\* C11: a well-formed decision object parses, into the variant named by
\* tool_name with exactly the given parameters and the given thought;
\* file_path is absent if the key is omitted or null and is the given
\* string if it is a string, so an omitted file_path never becomes the
\* empty string.
WellFormedDecision(r) ==
    /\ r.wf
    /\ r.value.k = "obj"
    /\ LET o == r.value.fields IN
       /\ "thought" \in DOMAIN o /\ o["thought"].k = "str"
       /\ "tool_name" \in DOMAIN o /\ o["tool_name"].k = "str"
       /\ "parameters" \in DOMAIN o /\ o["parameters"].k = "obj"
       /\ \E name \in ToolNames :
            /\ o["tool_name"].s = VariantText(name)
            /\ \A f \in SeqToSet(ToolFields(name)) :
                f \in DOMAIN o["parameters"].fields /\ o["parameters"].fields[f].k = "str"
       /\ ("file_path" \in DOMAIN o => o["file_path"].k \in {"null", "str"})

C11_DecisionFields ==
    (call.fn = "from_str" /\ call.ret # Pending) =>
        /\ (WellFormedDecision(call.arg) => call.ret.ok)
        /\ (call.ret.ok =>
              LET o == call.arg.value.fields
                  d == call.ret.v
              IN
              /\ o["tool_name"].s = VariantText(d.tool.tool_name)
              /\ \A f \in SeqToSet(ToolFields(d.tool.tool_name)) :
                    JStr(d.tool[f]) = Given(call.arg, d.tool.tool_name, f)
              /\ JStr(d.thought) = o["thought"]
              /\ IF "file_path" \notin DOMAIN o THEN d.file_path = None
                 ELSE IF o["file_path"] = JNull THEN d.file_path = None
                 ELSE d.file_path.some /\ JStr(d.file_path.v) = o["file_path"])

\* A WriteFile decision without file_path has parsed.
C11_Witness ==
    /\ call.fn = "from_str"
    /\ call.ret # Pending
    /\ call.ret.ok
    /\ "file_path" \notin DOMAIN call.arg.value.fields
    /\ call.ret.v.file_path = None
    /\ call.ret.v.tool = WriteFile(X, X)

\* C12: a RunCommand whose command exits with a nonzero status is a success
\* of the dispatcher; its output holds the markers "STDOUT:" and "STDERR:"
\* and the two captured streams (as converted by from_utf8_lossy), and the
\* step is recorded under the label "Tool Output", not "Tool Error".
C12_NonzeroExitIsSuccess ==
    [][(/\ pc = "tool"
        /\ pc' # "panicked"
        /\ Last(trace').tool.tool_name = "RunCommand"
        /\ Last(trace').w.spawn = "ok"
        /\ ~Last(trace').w.success)
       => LET e == Last(trace') IN
          /\ e.r.ok
          /\ Contains(e.r.out, Lit("STDOUT:", 7))
          /\ Contains(e.r.out, Lit("STDERR:", 7))
          /\ e.r.out = Lit("STDOUT:", 7) \o Ch("\n") \o Lossy(e.w.stdout)
                       \o Ch("\n") \o Lit("STDERR:", 7) \o Ch("\n") \o Lossy(e.w.stderr)
          /\ history' = Append(history, <<Lit("Tool Output", 11), e.r.out>>)
          /\ Last(history')[1] # Lit("Tool Error", 10)
          /\ pc' \in {"decide", "report"}
          /\ (pc' = "report" => result' = Ok)]_vars

\* The step of a command that exited with a nonzero status has been
\* recorded and the run goes on.
C12_Witness ==
    /\ pc = "decide"
    /\ Last(trace).op = "run_tool"
    /\ Last(trace).tool = RunCommand(Lit("exit 1", 6))
    /\ Last(trace).w.spawn = "ok"
    /\ ~Last(trace).w.success
    /\ Last(history)[1] = Lit("Tool Output", 11)
    /\ Contains(Last(history)[2], Lit("STDERR:", 7))

\* C13: whatever the interleaving of the threads, once k of them have
\* returned from add_cost(c) the total holds the cost of each of them and
\* of no other more than once; when all N have returned the total is the
\* initial total plus N * c.
Returned == {i \in Threads : call.th[i].at = "returned"}
InProgress == {i \in Threads : call.th[i].at \in {"locked", "loaded", "stored"}}

C13_NoLostUpdate ==
    call.fn = "add_cost" =>
        /\ Cardinality(InProgress) <= 1
        /\ total_cost >= call.initial + Cardinality(Returned) * call.cost
        /\ total_cost <= call.initial + (Cardinality(Returned) + 1) * call.cost
        /\ (Returned = Threads => total_cost = call.initial + call.n * call.cost)

C13_Witness ==
    /\ call.fn = "add_cost"
    /\ call.n = MaxThreads
    /\ Returned = Threads
    /\ total_cost = call.initial + MaxThreads * call.cost

\* C14 as stated: after a run that reaches Done the accumulator holds the
\* sum of the costs reported by all the generation calls of the run (the
\* plan call, the decision calls, the code-generation calls).
RECURSIVE SumCost(_)
SumCost(q) ==
    IF q = <<>> THEN 0
    ELSE (IF Head(q).op = "run_tool" THEN 0 ELSE Head(q).cost) + SumCost(Tail(q))

C14_Original ==
    Done => total_cost = SumCost(trace)

\* C15 as stated: each run starts with an empty history and an empty plan,
\* and the accumulator is shared by the runs of the process: when a later
\* run starts, the total still includes what the earlier runs have cost.
C15_Original ==
    [][(pc = "prompt" /\ pc' = "gather")
       => (history' = <<>> /\ plan' = <<>> /\ total_cost' >= total_cost)]_vars

\* C16: in every run that has reached the planning stage the first call is
\* the dispatch of ListFiles("."), made once; the first history entry is its
\* output under the label "Initial Directory Listing", whatever the output;
\* the Plan Generator is called second, with a history that holds this entry
\* and a rendered context that contains it.
InitialLabel == Lit("Initial Directory Listing", 25)

C16_ContextGatheredFirst ==
    pc \in {"plan", "decide", "coder", "save", "tool", "report"} =>
        /\ Len(trace) >= 1
        /\ trace[1].op = "run_tool"
        /\ trace[1].step = -1
        /\ trace[1].tool = ListFiles(Ch("."))
        /\ trace[1].r.ok
        /\ Len(history) >= 1
        /\ history[1] = <<InitialLabel, trace[1].r.out>>
        /\ \A k \in 2..Len(trace) : trace[k].op = "run_tool" => trace[k].step >= 0
        /\ \A k \in 1..Len(trace) :
            trace[k].op = "create_plan" => (k = 2 /\ trace[k].hist = 1)
        /\ (pc = "plan" /\ ~get_context(goal, history).panic
            => Contains(get_context(goal, history).text,
                        Ch("[") \o InitialLabel \o Lit("]\n", 2)
                        \o Summarize(trace[1].r.out, TruncationCap)))

\* The listing of an empty directory has been recorded and the plan made.
C16_Witness ==
    /\ pc = "decide"
    /\ Len(trace) = 2
    /\ trace[2].op = "create_plan"
    /\ trace[2].hist = 1
    /\ history = <<<<InitialLabel, <<>>>>>>

\* C17: when the Plan Generator returns zero steps the run ends in success
\* right away: its calls are the initial listing and the plan call only (no
\* decision call, no dispatch of a step) and the history holds the initial
\* entry only.
C17_EmptyPlanIsSuccess ==
    (Len(trace) >= 2 /\ trace[2].op = "create_plan" /\ trace[2].ok /\ plan = <<>>) =>
        /\ Done
        /\ Len(trace) = 2
        /\ Len(history) = 1
        /\ history[1][1] = InitialLabel
        /\ idx = 0

C17_Witness ==
    /\ Done
    /\ plan = <<>>
    /\ Len(trace) = 2
    /\ trace[2].op = "create_plan"
    /\ trace[2].ok
    /\ Len(history) = 1

\* C18: a run makes at most one Plan Generator call, and exactly one
\* successful call before any step is executed; the plan changes only at
\* that call, where the parsed steps replace the empty plan, and no later
\* operation of the run changes it; the goal is the same from the creation
\* of the orchestrator to the return of run.
PlanCalls(q) == {k \in 1..Len(q) : q[k].op = "create_plan"}

C18_PlanAndGoalFixed ==
    [][/\ (pc \in {"gather", "plan", "decide", "coder", "save", "tool"} => goal' = goal)
       /\ (pc \in {"gather", "decide", "coder", "save", "tool"} => plan' = plan)
       /\ (pc = "plan" =>
            /\ plan = <<>>
            /\ (plan' # plan => Last(trace').op = "create_plan" /\ Last(trace').ok))
       /\ Cardinality(PlanCalls(trace')) <= 1
       /\ (pc' \in {"decide", "coder", "save", "tool"} =>
            \E k \in PlanCalls(trace') : trace'[k].ok)]_vars

C18_Witness ==
    /\ Done
    /\ goal = Lit("demo", 4)
    /\ plan = <<Ch("A"), Ch("B")>>
    /\ Cardinality(PlanCalls(trace)) = 1
    /\ Len(trace) >= 6

\* C19: a call of the Plan Generator, of the Decision Resolver or of the
\* Code Generator leaves the history as it was at the call, and the plan
\* and the cursor as the orchestrator set them; the only append of these
\* steps is the orchestrator's append of the generated code after the Code
\* Generator has returned with success, to the history as it was at the call.
C19_SubAgentsReadOnly ==
    [][/\ (pc = "plan" => history' = history /\ current_step' = current_step)
       /\ (pc = "decide" =>
            /\ history' = history
            /\ plan' = plan
            /\ idx' = idx
            /\ current_step' = idx)
       /\ (pc = "coder" =>
            /\ plan' = plan
            /\ current_step' = current_step
            /\ IF pc' # "panicked" /\ Last(trace').ok
               THEN /\ Last(trace').hist = Len(history)
                    /\ Len(history') = Len(history) + 1
                    /\ SubSeq(history', 1, Len(history)) = history
               ELSE history' = history)]_vars

\* A decision has been made at the second step and the history is the one
\* the Decision Resolver was called with.
C19_Witness ==
    /\ pc = "tool"
    /\ idx = 1
    /\ Last(trace).op = "decide_action"
    /\ Last(trace).ok
    /\ Last(trace).hist = Len(history)
    /\ Len(history) = 2

\* C20: a get_context that returns, after any sequence of add_history
\* calls, gives a text that starts with the goal line and then holds the
\* bracketed label of every entry, entry k's before entry k + 1's, with no
\* bracketed label besides these (none omitted, duplicated or reordered).
BracketedAt(text, p, label) ==
    /\ p + Len(label) + 1 <= Len(text)
    /\ SubSeq(text, p, p + Len(label) + 1) = Ch("[") \o label \o Lit("]\n", 2)

\* The labels of entries k.. of h occur in this order in text from piece p on.
RECURSIVE InOrderFrom(_, _, _, _)
InOrderFrom(text, p, h, k) ==
    IF k > Len(h) THEN TRUE
    ELSE \E q \in p..Len(text) :
            /\ BracketedAt(text, q, h[k][1])
            /\ InOrderFrom(text, q + 1, h, k + 1)

GoalLine == Lit("The overall goal is: ", 21) \o goal \o Ch("\n")

C20_RenderKeepsOrder ==
    (call.fn = "get_context" /\ call.ret # Pending /\ ~call.ret.panic) =>
        LET text == call.ret.text IN
        /\ SubSeq(text, 1, Len(GoalLine)) = GoalLine
        /\ InOrderFrom(text, Len(GoalLine) + 1, history, 1)
        /\ Cardinality({p \in 1..Len(text) : <<text[p]>> = Ch("[")}) = Len(history)

\* Two entries with different labels have been rendered.
C20_Witness ==
    /\ call.fn = "get_context"
    /\ call.ret # Pending
    /\ ~call.ret.panic
    /\ Len(history) = 2
    /\ history[1][1] = Lit("type1", 5)
    /\ history[2][1] = Lit("Tool Output", 11)
    /\ history[1][2] = Rep("a", 499) \o Ch("b") \o Ch("c")

\* C21: a get_context that returns renders every entry as its label block
\* and then its content cut at the cap of 500 bytes: content longer than
\* the cap appears as a prefix of exactly 500 bytes followed by "..." and
\* nothing else of the content, content of at most 500 bytes (500 included)
\* appears whole and without the marker; the call leaves the stored
\* history as it was.
IsTextPrefix(p, t) ==
    /\ Len(p) >= 1
    /\ Len(p) <= Len(t)
    /\ \A i \in 1..(Len(p) - 1) : p[i] = t[i]
    /\ p[Len(p)].c = t[Len(p)].c
    /\ p[Len(p)].w = t[Len(p)].w
    /\ p[Len(p)].n >= 1
    /\ p[Len(p)].n <= t[Len(p)].n

Slice(text, p, n) == IF p + n - 1 <= Len(text) THEN SubSeq(text, p, p + n - 1) ELSE <<>>
Follows(text, p, part) == Slice(text, p, Len(part)) = part

\* From piece p on, text is the blocks of entries k.. of h and nothing more.
RECURSIVE BlocksFrom(_, _, _, _)
BlocksFrom(text, p, h, k) ==
    IF k > Len(h) THEN p = Len(text) + 1
    ELSE LET label == Ch("[") \o h[k][1] \o Lit("]\n", 2)
             content == h[k][2]
             start == p + Len(label)
         IN
         /\ Follows(text, p, label)
         /\ IF ByteLen(content) <= 500
            THEN /\ Follows(text, start, content \o Lit("\n---\n", 5))
                 /\ BlocksFrom(text, start + Len(content) + 1, h, k + 1)
            ELSE \E m \in 1..Len(content) :
                    /\ IsTextPrefix(Slice(text, start, m), content)
                    /\ ByteLen(Slice(text, start, m)) = 500
                    /\ Follows(text, start + m, Lit("...", 3) \o Lit("\n---\n", 5))
                    /\ BlocksFrom(text, start + m + 2, h, k + 1)

ContextHeader == GoalLine \o Lit("\n--- History & Context ---\n", 27)

C21_TruncationAtCap ==
    [][(call.fn = "get_context" /\ call.ret = Pending /\ call'.ret # Pending
        /\ ~call'.ret.panic)
       => /\ history' = history
          /\ Follows(call'.ret.text, 1, ContextHeader)
          /\ (history # <<>> =>
                BlocksFrom(call'.ret.text, Len(ContextHeader) + 1, history, 1))]_vars

\* Content of 501 bytes has been rendered cut, content of 500 bytes whole.
C21_Witness ==
    /\ call.fn = "get_context"
    /\ call.ret # Pending
    /\ ~call.ret.panic
    /\ history = <<<<Lit("type1", 5), Rep("a", 499) \o Ch("b") \o Ch("c")>>,
                   <<Lit("Tool Output", 11), Rep("a", 500)>>>>
    /\ Contains(call.ret.text, Rep("a", 499) \o Ch("b") \o Lit("...", 3))
    /\ ~Contains(call.ret.text, Ch("c"))
    /\ Contains(call.ret.text, Lit("]\n", 2) \o Rep("a", 500) \o Lit("\n---\n", 5))

\* C22 as stated: get_context returns for every history content, also for
\* content whose byte at offset 500 lies inside a multi-byte character (it
\* does not panic), and the text it cuts ends on a character boundary.
C22_Original ==
    (call.fn = "get_context" /\ call.ret # Pending) =>
        /\ ~call.ret.panic
        /\ \A k \in 1..Len(history) :
            ByteLen(history[k][2]) > TruncationCap =>
                \E b \in 0..TruncationCap : IsCharBoundary(history[k][2], b)
                    /\ Contains(call.ret.text,
                                Take(history[k][2], b) \o Lit("...", 3))

\* C23: a get_context that returns gives the placeholder line "No actions
\* have been taken yet." exactly if the history is empty: with an empty
\* history the text is the header and the placeholder line, with one or
\* more entries the header is followed by the first entry's label and the
\* placeholder is nowhere in the text.
Placeholder == Lit("No actions have been taken yet.\n", 32)

C23_PlaceholderIffEmpty ==
    (call.fn = "get_context" /\ call.ret # Pending /\ ~call.ret.panic) =>
        LET text == call.ret.text IN
        /\ Follows(text, 1, ContextHeader)
        /\ (Contains(text, Placeholder) <=> history = <<>>)
        /\ (history = <<>> => text = ContextHeader \o Placeholder)
        /\ (history # <<>> =>
                Follows(text, Len(ContextHeader) + 1, Ch("[") \o history[1][1]))

\* One entry has been rendered, without the placeholder.
C23_Witness ==
    /\ call.fn = "get_context"
    /\ call.ret # Pending
    /\ ~call.ret.panic
    /\ history = <<<<Lit("Tool Output", 11), Short>>>>
    /\ ~Contains(call.ret.text, Placeholder)
    /\ Contains(call.ret.text, Short)

\* C24: parse_plan gives one step for every line of the response that is
\* not empty or whitespace-only, in the order of the lines, and no other
\* step; the step of a line with a leading "<number>. " marker is the line
\* without the marker and the surrounding whitespace; a response whose
\* lines are all blank gives the empty plan.
IsStepLine(l) == l.num # <<>> \/ l.body # <<>>
StepLines(arg) == SelectSeq(arg.lines, IsStepLine)

C24_NonBlankLinesKept ==
    (call.fn = "parse_plan" /\ call.ret # Pending) =>
        LET kept == StepLines(call.arg) IN
        /\ Len(call.ret.plan) = Len(kept)
        /\ \A k \in 1..Len(kept) :
            /\ call.ret.plan[k] # <<>>
            /\ (kept[k].num # <<>> => call.ret.plan[k] = kept[k].body)
            /\ (kept[k].num = <<>> =>
                    \E j \in 1..Len(kept[k].body) :
                        call.ret.plan[k] = SubSeq(kept[k].body, j, Len(kept[k].body)))
        /\ (kept = <<>> => call.ret.plan = <<>>)

\* Blank lines between two numbered lines have been dropped.
C24_Witness ==
    /\ call.fn = "parse_plan"
    /\ call.ret # Pending
    /\ Len(call.arg.lines) = 3
    /\ call.arg.lines[2] = PlanLine(Rep(" ", 3), <<>>, <<>>, <<>>)
    /\ call.arg.lines[1].num = Ch("1")
    /\ call.arg.lines[3].num = Ch("2")
    /\ call.ret.plan = <<Ch("A"), Ch("B") \o Ch(" ") \o Ch("c")>>

\* C25 as stated: the step of a line without a numeric marker is the line
\* itself without the surrounding whitespace, also when the line holds the
\* sequence ". " later in its text.
C25_Original ==
    (call.fn = "parse_plan" /\ call.ret # Pending) =>
        LET kept == StepLines(call.arg) IN
        /\ Len(call.ret.plan) = Len(kept)
        /\ \A k \in 1..Len(kept) : kept[k].num = <<>> => call.ret.plan[k] = kept[k].body

\* C26 as stated: the output of ListFiles is the paths of the ordinary
\* files that do not lie in a directory named target or .git, one per
\* line: no path with a target or .git directory segment is returned and
\* no ordinary file outside these directories is left out.
InArtifactDir(e) ==
    \E i \in 1..Len(e.segs) :
        /\ e.segs[i] \in {Target, DotGit}
        /\ (i < Len(e.segs) \/ e.kind = "dir")

OrdinaryFile(e) == e.ok /\ e.kind = "file" /\ ~InArtifactDir(e)

RECURSIVE PathsOf(_)
PathsOf(entries) ==
    IF entries = <<>> THEN <<>>
    ELSE (IF OrdinaryFile(Head(entries)) THEN Head(entries).path \o Ch("\n") ELSE <<>>)
         \o PathsOf(Tail(entries))

C26_Original ==
    (call.fn = "list_files" /\ call.ret # Pending) =>
        call.ret.ok /\ call.ret.out = PathsOf(call.w.entries)

\* C27: every dispatch of ListFiles is a success of the dispatcher, also
\* when WalkDir cannot read the root (the output is then empty) or some
\* entry (the output holds the other entries); the run is never aborted at
\* the initial context gathering: a run that has returned has made its
\* Plan Generator call.
AllInError(entries) == \A i \in 1..Len(entries) : ~entries[i].ok

C27_ListFilesAlwaysSucceeds ==
    /\ \A k \in 1..Len(trace) :
        (trace[k].op = "run_tool" /\ trace[k].tool.tool_name = "ListFiles") =>
            /\ trace[k].r.ok
            /\ (AllInError(trace[k].w.entries) => trace[k].r.out = <<>>)
            /\ \A i \in 1..Len(trace[k].w.entries) :
                LET e == trace[k].w.entries[i] IN
                (e.ok /\ ~Contains(e.path, Target \o Ch("/"))
                      /\ ~Contains(e.path, DotGit \o Ch("/")))
                    => Contains(trace[k].r.out, e.path \o Ch("\n"))
    /\ (pc \in {"plan", "decide", "coder", "save", "tool"} => Len(trace) >= 1)
    /\ (pc = "report" => Len(trace) >= 2 /\ trace[2].op = "create_plan")

\* The root could not be read: the listing is empty and the run goes on.
C27_Witness ==
    /\ pc = "plan"
    /\ Len(trace) = 1
    /\ trace[1].tool = ListFiles(Ch("."))
    /\ AllInError(trace[1].w.entries)
    /\ trace[1].r.ok
    /\ history = <<<<InitialLabel, <<>>>>>>

\* C28: a Search dispatched without a search credential fails with
\* ApiKeyMissing before any network request; a Search whose provider
\* answers with a non-success status fails; the output of a successful
\* Search is the blocks "[Result 1]", "[Result 2]", ... of the first 3
\* results of the answer (of all if there are fewer), in the answer's order.
ResultBlock(i, res) ==
    Lit("[Result ", 8) \o Ch(ToString(i)) \o Lit("]\nTitle: ", 9) \o res.title
    \o Lit("\nURL: ", 6) \o res.url \o Lit("\nSnippet: ", 10) \o res.description
    \o Rep("\n", 2)

BlockStarts(out) == {p \in 1..Len(out) : <<out[p]>> = Lit("[Result ", 8)}

C28_SearchOutcome ==
    (call.fn = "run_tool" /\ call.ret # Pending /\ call.arg.tool_name = "Search") =>
        /\ (~call.w.key =>
                /\ ~call.ret.ok
                /\ call.ret.err = AgentError("ApiKeyMissing", Lit("Brave Search", 12))
                /\ \A i \in 1..Len(call.ret.io) : call.ret.io[i] # "network")
        /\ (call.w.key /\ call.w.send = "ok" /\ ~call.w.status_success => ~call.ret.ok)
        /\ (call.ret.ok =>
                LET results == call.w.results
                    n == IF Len(results) < 3 THEN Len(results) ELSE 3
                    starts == BlockStarts(call.ret.out)
                IN
                /\ Cardinality(starts) = n
                /\ \A i \in 1..n :
                    \E p \in starts :
                        /\ Cardinality({q \in starts : q < p}) = i - 1
                        /\ Follows(call.ret.out, p, ResultBlock(i, results[i])))

\* An answer of four results has given three blocks.
C28_Witness ==
    /\ call.fn = "run_tool"
    /\ call.arg.tool_name = "Search"
    /\ call.ret # Pending
    /\ call.ret.ok
    /\ Len(call.w.results) = 4
    /\ Contains(call.ret.out, ResultBlock(3, SearchResult(3)))
    /\ ~Contains(call.ret.out, SearchResult(4).title)

\* C29: when the dispatch of a step's non-CodeGeneration action succeeds,
\* the step appends exactly one entry <<"Tool Output", output>> with the
\* whole output of the tool: for an output longer than 300 bytes the stored
\* content is the output itself, not the text cut at 300 and marked "...".
C29_FullOutputStored ==
    [][(pc = "tool" /\ pc' # "panicked" /\ Last(trace').r.ok)
       => LET out == Last(trace').r.out IN
          /\ Last(trace').tool.tool_name \in DispatchableNames
          /\ history' = Append(history, <<Lit("Tool Output", 11), out>>)
          /\ ByteLen(Last(history')[2]) = ByteLen(out)
          /\ (ByteLen(out) > SummaryCap =>
                /\ ByteLen(Last(history')[2]) > SummaryCap + 3
                /\ ~Contains(Last(history')[2], Lit("...", 3)))]_vars

\* A file of 600 bytes has been read and is stored whole.
C29_Witness ==
    /\ pc = "decide"
    /\ Last(trace).op = "run_tool"
    /\ Last(trace).tool.tool_name = "ReadFile"
    /\ Last(trace).r.ok
    /\ Last(trace).r.out = LongAscii
    /\ Last(history) = <<Lit("Tool Output", 11), Rep("a", 600)>>

\* C30: a response that names another variant than CodeGeneration and
\* holds a file_path parses, into the same action as without the
\* file_path; the step of such a decision dispatches exactly this action
\* and nothing else: no WriteFile to the path follows, the next call of
\* the run is the decision of the next step.
FilePathAccepted ==
    \A r \in GoodResponses :
        LET with == ParseDecision(WithFilePath(r, JStr(OutPath))) IN
        /\ with.ok
        /\ with.v.tool = ParseDecision(r).v.tool
        /\ with.v.file_path = Some(OutPath)

C30_OutputPathUnused ==
    /\ FilePathAccepted
    /\ \A k \in 1..Len(trace) :
        (/\ trace[k].op = "decide_action"
         /\ trace[k].ok
         /\ trace[k].decision.file_path.some
         /\ trace[k].decision.tool.tool_name # "CodeGeneration") =>
            /\ (k = Len(trace) => pc \in {"tool", "panicked"})
            /\ (k < Len(trace) =>
                    /\ trace[k + 1].op = "run_tool"
                    /\ trace[k + 1].step = trace[k].step
                    /\ trace[k + 1].tool = trace[k].decision.tool)
            /\ (k + 1 < Len(trace) =>
                    /\ trace[k + 2].op = "decide_action"
                    /\ trace[k + 2].step = trace[k].step + 1)

\* A ReadFile decision with a file_path has been dispatched as ReadFile and
\* the next step has been decided.
C30_Witness ==
    /\ Len(trace) >= 5
    /\ trace[3].op = "decide_action"
    /\ trace[3].decision.tool = ReadFile(Lit("a.txt", 5))
    /\ trace[3].decision.file_path = Some(OutPath)
    /\ trace[4].op = "run_tool"
    /\ trace[4].tool = ReadFile(Lit("a.txt", 5))
    /\ trace[5].op = "decide_action"

(***************************************************************************)
(* C31.  The error of an aborted run and the step.                         *)
(***************************************************************************)
\* The error value names step i: it carries the index as a component, or its
\* Display text (what main prints after "Task Failed: ") holds the number of
\* the step, counted from 0 or from 1, or the text of the step.
ErrorNamesStep(e, i) ==
    \/ "step" \in DOMAIN e /\ e.step \in {i, i + 1}
    \/ \E k \in {i, i + 1} : Contains(ErrorToString(e), Ch(ToString(k)))
    \/ Contains(ErrorToString(e), plan[i + 1])

\* C31 (as stated): every abort of a run at a step surfaces an error value
\* that names the step, next to the cause; an abort by a failure of the
\* Decision Resolver at step i carries step i.
C31_Original ==
    Aborted /\ Last(trace).step >= 0
        => ErrorNamesStep(result.err, Last(trace).step)

(***************************************************************************)
(* C32.  Serialization round trip.                                         *)
(***************************************************************************)
\* C32: a Decision or a Tool written by to_string and parsed back by
\* from_str is equal to the value written, for every action variant and for
\* file_path present and absent; the text written is well-formed and holds
\* the tag under "tool_name", the fields under "parameters" and, for a
\* Decision, "thought" and "file_path" next to them.
C32_RoundTrip ==
    call.fn = "round_trip" =>
        /\ call.json # Pending =>
            /\ call.json.wf
            /\ call.json.value.k = "obj"
            /\ DOMAIN call.json.value.fields =
                    IF call.type = "Decision"
                    THEN {"thought", "tool_name", "parameters", "file_path"}
                    ELSE {"tool_name", "parameters"}
        /\ call.ret # Pending => call.ret.ok /\ call.ret.v = call.arg

C32_Witness ==
    /\ call.fn = "round_trip"
    /\ call.type = "Decision"
    /\ call.arg.tool.tool_name = "WriteFile"
    /\ call.arg.file_path = None
    /\ call.ret # Pending
    /\ call.ret.ok
    /\ call.ret.v.file_path = None

(***************************************************************************)
(* C33.  The context of a decision.                                        *)
(***************************************************************************)
\* The history entry that step j left: the entry of the dispatched tool, or
\* the generated code.
StepEntryOf(j, entry) ==
    \E d \in 1..Len(trace) :
        /\ IsDecide(trace[d])
        /\ trace[d].step = j
        /\ trace[d].ok
        /\ \E k \in (d + 1)..Len(trace) :
                /\ trace[k].step = j
                /\ IF trace[d].decision.tool.tool_name = "CodeGeneration"
                   THEN /\ trace[k].op = "generate_code"
                        /\ trace[k].ok
                        /\ entry[1] = Lit("Generated Code", 14)
                   ELSE /\ trace[k].op = "run_tool"
                        /\ entry = tool_entry(trace[k].r)

\* C33: the context handed to the Decision Resolver for step i is the
\* header followed by the blocks of the first i + 1 history entries and
\* nothing more: the entry of the initial listing and the entry each step
\* j < i left, in order; no entry of step i or of a later step is in it.
C33_ContextReflectsEarlierSteps ==
    \A k \in 1..Len(trace) :
        IsDecide(trace[k]) =>
            LET i == trace[k].step
                text == trace[k].prompt.context
            IN
            /\ trace[k].prompt.step = plan[i + 1]
            /\ Len(history) >= i + 1
            /\ Follows(text, 1, ContextHeader)
            /\ BlocksFrom(text, Len(ContextHeader) + 1, SubSeq(history, 1, i + 1), 1)
            /\ history[1][1] = InitialLabel
            /\ \A j \in 0..(i - 1) : StepEntryOf(j, history[j + 2])

\* The decision of step 1 has been made on a context that holds the output
\* of the tool that step 0 ran.
C33_Witness ==
    /\ Len(trace) >= 4
    /\ IsDecide(Last(trace))
    /\ Last(trace).step = 1
    /\ trace[Len(trace) - 1].op = "run_tool"
    /\ trace[Len(trace) - 1].step = 0
    /\ trace[Len(trace) - 1].r.ok
    /\ trace[Len(trace) - 1].r.out # <<>>
    /\ Contains(Last(trace).prompt.context, trace[Len(trace) - 1].r.out)

BackendReturned(e) == IsDecide(e) /\ "decision" \in DOMAIN e

\* C35: a decide_action call whose backend returns adds the reported cost to
\* the accumulator whether or not the response parses; when it does not
\* parse the run aborts with ResponseParseError and the accumulator holds
\* the cost of that call on top of what it held before.
C35_CostAddedBeforeParse ==
    [][(pc = "decide" /\ Len(trace') = Len(trace) + 1 /\ BackendReturned(Last(trace')))
       => /\ total_cost' = total_cost + Last(trace').cost
          /\ (~Last(trace').ok =>
                /\ pc' = "report"
                /\ result' # Ok
                /\ result'.err.kind = "ResponseParseError")]_vars

\* The run has aborted at step 1 on a response that did not parse, with the
\* costs of both decisions in the accumulator.
C35_Witness ==
    /\ Aborted
    /\ BackendReturned(Last(trace))
    /\ ~Last(trace).ok
    /\ Last(trace).step = 1
    /\ Last(trace).cost > 0
    /\ result.err.kind = "ResponseParseError"
    /\ total_cost = 2 * Last(trace).cost

(***************************************************************************)
(* C36.  The cursor.                                                       *)
(***************************************************************************)
Executing == {"decide", "coder", "save", "tool"}

\* C36: from the head of the first iteration to the end of the run the
\* cursor is an index of the plan and no step of the run decreases it; a
\* step that makes a decision sets it to the index of the step decided, it
\* is the index of the step while its code is generated, its code saved or
\* its tool run, and a run over a non-empty plan that reaches Done leaves it
\* at len(plan) - 1.
C36_CursorTracksStep ==
    [][/\ (pc \in Executing =>
            /\ current_step' >= current_step
            /\ current_step' >= 0
            /\ current_step' < Len(plan'))
       /\ (pc = "decide" => current_step' = idx)
       /\ (pc = "decide" /\ pc' # "panicked" =>
            IsDecide(Last(trace')) /\ Last(trace').step = current_step')
       /\ (pc' \in {"coder", "save", "tool"} => current_step' = idx')
       /\ (pc \in {"coder", "save", "tool"} /\ pc' # "panicked" =>
            Last(trace').step = current_step)
       /\ (pc \in Executing /\ pc' = "report" /\ result' = Ok =>
            plan' # <<>> /\ current_step' = Len(plan') - 1)]_vars

\* A run over a plan of MaxPlan steps has reached Done with the cursor on the
\* last step.
C36_Witness ==
    /\ Done
    /\ Len(plan) = MaxPlan
    /\ current_step = MaxPlan - 1
    /\ Last(trace).step = MaxPlan - 1

(***************************************************************************)
(* C37.  The code saved is the code recorded.                              *)
(***************************************************************************)
\* c is r without its leading and trailing whitespace.
IsTrimmed(c, r) ==
    /\ (c # <<>> => ~IsWhite(c[1]) /\ ~IsWhite(c[Len(c)]))
    /\ \E i \in 0..Len(r) :
        /\ i + Len(c) <= Len(r)
        /\ SubSeq(r, i + 1, i + Len(c)) = c
        /\ \A k \in 1..i : IsWhite(r[k])
        /\ \A k \in (i + Len(c) + 1)..Len(r) : IsWhite(r[k])

\* C37: on a CodeGeneration step whose decision has an output path, the
\* entry appended under "Generated Code" holds the backend response without
\* its leading and trailing whitespace, the WriteFile dispatched next
\* writes exactly that content to the output path, and the dispatch, whether
\* it succeeds or fails, leaves the history as it was.
C37_SavedCodeIsRecordedCode ==
    [][/\ (pc = "coder" /\ pc' = "save") =>
            /\ Last(trace').op = "generate_code"
            /\ Last(history')[1] = Lit("Generated Code", 14)
            /\ IsTrimmed(Last(history')[2], Last(trace').response)
            /\ Len(history') = Len(history) + 1
       /\ (pc = "save") =>
            /\ trace[Len(trace)].op = "generate_code"
            /\ Last(trace').op = "run_tool"
            /\ Last(trace').tool.tool_name = "WriteFile"
            /\ Last(trace').tool.path = decision.file_path.v
            /\ Last(trace').tool.content = Last(history)[2]
            /\ IsTrimmed(Last(trace').tool.content, trace[Len(trace)].response)
            /\ history' = history]_vars

\* A response with whitespace around the code has been generated, recorded
\* and written to the file.
C37_Witness ==
    /\ Len(trace) >= 2
    /\ Last(trace).op = "run_tool"
    /\ Last(trace).tool.tool_name = "WriteFile"
    /\ Last(trace).r.ok
    /\ trace[Len(trace) - 1].op = "generate_code"
    /\ trace[Len(trace) - 1].response # Last(trace).tool.content
    /\ Last(history) = <<Lit("Generated Code", 14), Last(trace).tool.content>>

(***************************************************************************)
(* C38.  Termination of a run.                                             *)
(***************************************************************************)
RECURSIVE Count(_, _)
Count(q, op) ==
    IF q = <<>> THEN 0 ELSE (IF Head(q).op = op THEN 1 ELSE 0) + Count(Tail(q), op)

RunEnded == pc \in {"report", "panicked"}

C39_Original ==
    [][/\ (pc = "report" =>
            /\ pc' = "prompt"
            /\ last_msg' = (IF result.ok THEN "Task Completed Successfully!"
                            ELSE "Task Failed"))
       /\ (pc = "prompt" /\ pc' = "gather" => goal' # <<>> /\ goal' = Trim(goal'))
       /\ (pc = "prompt" /\ pc' = "exited" => last_msg' = "Exiting agent. Goodbye!")]_vars

(***************************************************************************)
(* C40.  RunCommand: the exit status selects the format of the output.     *)
(***************************************************************************)
Marked(stdout, stderr) ==
    Lit("STDOUT:", 7) \o Ch("\n") \o stdout \o Ch("\n") \o Lit("STDERR:", 7) \o Ch("\n") \o stderr

\* C40: a RunCommand whose command was started returns a success; if the
\* command exited with status zero the output is the captured stdout (as
\* converted by from_utf8_lossy) and nothing else: no "STDOUT:" or "STDERR:"
\* marker and nothing of stderr; the output has the markers exactly if the
\* status is nonzero, and then it is both streams under their markers.
C40_ZeroExitIsStdoutAlone ==
    (/\ call.fn = "run_tool"
     /\ call.ret # Pending
     /\ call.arg.tool_name = "RunCommand"
     /\ call.w.spawn = "ok")
    => LET out == call.ret.out IN
       /\ call.ret.ok
       /\ (call.w.success =>
            /\ out = Lossy(call.w.stdout)
            /\ ~Contains(out, Lossy(call.w.stderr)))
       /\ (Contains(out, Lit("STDOUT:", 7)) <=> ~call.w.success)
       /\ (Contains(out, Lit("STDERR:", 7)) <=> ~call.w.success)
       /\ (~call.w.success => out = Marked(Lossy(call.w.stdout), Lossy(call.w.stderr)))

\* A command that wrote to both streams and exited with status zero has
\* returned its stdout.
C40_Witness ==
    /\ call.fn = "run_tool"
    /\ call.ret # Pending
    /\ call.arg.tool_name = "RunCommand"
    /\ call.w.spawn = "ok"
    /\ call.w.success
    /\ call.w.stderr # <<>>
    /\ call.w.stdout # <<>>
    /\ call.ret.ok
    /\ call.ret.out = call.w.stdout

====
